---- MODULE Spec2Model ----
(***************************************************************************)
(* branchlet: the worktree lifecycle flows (create, list / batch delete,   *)
(* close) and the branch-prefix rule, as state machines.                   *)
(*                                                                         *)
(* Strings are sequences of one-character strings, so that startsWith and  *)
(* concatenation are computed and not assumed.  Paths are sequences of     *)
(* path segments.                                                          *)
(***************************************************************************)
EXTENDS Integers, Sequences, FiniteSets, TLC

\* ------------------------------------------------------------------ bounds

\* Longest name / prefix drawn for the branch-prefix rule.
MaxStrLen == 3

\* Most additional worktrees the repository holds.
MaxWorktrees == 3

\* The list cursor is followed up to this index.
MaxSelectedIndex == 3

\* Most post-create commands configured.
MaxCommands == 2

\* Most create sequences started while the create panel is mounted.
MaxAttempts == 2

\* Most renders of AppRouter after the first while the create panel is mounted.
MaxRenders == 1

\* ----------------------------------------------------------------- strings

\* undefined (an optional prop or argument that was not given)
None == "undefined"

Alphabet == {"a", "b", "/"}

RECURSIVE StringsUpTo(_)
StringsUpTo(n) ==
  IF n = 0 THEN {<<>>}
  ELSE LET shorter == StringsUpTo(n - 1)
       IN  shorter \cup {Append(s, c) : s \in {t \in shorter : Len(t) = n - 1}, c \in Alphabet}

\* String.prototype.startsWith
StartsWith(s, p) ==
  /\ Len(p) <= Len(s)
  /\ SubSeq(s, 1, Len(p)) = p

\* String.prototype.endsWith
EndsWith(s, p) ==
  /\ Len(p) <= Len(s)
  /\ SubSeq(s, Len(s) - Len(p) + 1, Len(s)) = p

\* ------------------------------------------------- create: applyBranchPrefix

\* A slip: the deduplication test looks at the end of the name.
applyBranchPrefix_EndsWith(branchName, prefix) ==
  IF prefix = <<>> \/ branchName = <<>> THEN branchName
  ELSE IF EndsWith(branchName, prefix) THEN branchName
  ELSE prefix \o branchName

\* A slip: the deduplication test accepts the prefix anywhere in the name.
applyBranchPrefix_Includes(branchName, prefix) ==
  IF prefix = <<>> \/ branchName = <<>> THEN branchName
  ELSE IF \E i \in 1..Len(branchName) :
            /\ i + Len(prefix) - 1 <= Len(branchName)
            /\ SubSeq(branchName, i, i + Len(prefix) - 1) = prefix
       THEN branchName
  ELSE prefix \o branchName

\* function applyBranchPrefix(branchName, prefix)
applyBranchPrefix(branchName, prefix) ==
  IF prefix = <<>> \/ branchName = <<>> THEN branchName
  ELSE IF StartsWith(branchName, prefix) THEN branchName
  ELSE prefix \o branchName

\* ------------------------------------------------------------------- paths

\* An absent or empty path or name: undefined and "" are both falsy, and
\* the code tests both with !x.
Absent == <<>>

\* Path segments whose text begins with "..".
DotDotSegments == {"..", "..x"}

RECURSIVE CommonPrefixLen(_, _)
CommonPrefixLen(a, b) ==
  IF a = <<>> \/ b = <<>> \/ Head(a) # Head(b) THEN 0
  ELSE 1 + CommonPrefixLen(Tail(a), Tail(b))

\* node:path relative(from, to), both absolute and normalised
PathRelative(from, to) ==
  LET k == CommonPrefixLen(from, to)
  IN  [i \in 1..(Len(from) - k) |-> ".."] \o SubSeq(to, k + 1, Len(to))

RECURSIVE PathNormalize(_, _)
PathNormalize(done, todo) ==
  IF todo = <<>> THEN done
  ELSE IF Head(todo) = ".." /\ done # <<>>
       THEN PathNormalize(SubSeq(done, 1, Len(done) - 1), Tail(todo))
  ELSE PathNormalize(Append(done, Head(todo)), Tail(todo))

\* node:path join(a, b)
PathJoin(a, b) == PathNormalize(<<>>, a \o b)

\* relativePath.startsWith("..")
RelStartsWithDotDot(rel) == rel # <<>> /\ Head(rel) \in DotDotSegments

\* close panel: getTargetPath(mainRepoPath, worktreePath, originalCwd);
\* existing is the set of paths for which existsSync answers true.
closeGetTargetPath(mainRepoPath, worktreePath, cwd, existing) ==
  IF cwd = Absent THEN mainRepoPath
  ELSE LET relativePath == PathRelative(worktreePath, cwd)
       IN  IF relativePath = <<>> \/ RelStartsWithDotDot(relativePath)
           THEN mainRepoPath
           ELSE LET targetPath == PathJoin(mainRepoPath, relativePath)
                IN  IF targetPath \in existing THEN targetPath ELSE mainRepoPath

VARIABLES
  \* the process (index.tsx main) and its environment
  isFromWrapper,   \* --from-wrapper
  ORIGINAL_CWD,    \* process.cwd() at start
  existing,        \* the paths that exist on disk
  stdout,          \* the lines written to process.stdout
  hasExited,       \* main's hasExited
  \* close panel
  clStep,          \* state.step, "off" when the panel is not mounted
  clError,         \* state.error
  clCurrentWorktreePath, \* state.currentWorktreePath
  clMainRepoPath,  \* state.mainRepoPath
  clBranchName,    \* state.branchName
  clPc,            \* where checkCurrentWorktree stands
  clInfo,          \* what getCurrentWorktreeInfo returned
  clInfoStatus,    \* "pending" | "returned" | "threw"
  clCleanCalls,    \* the paths isWorktreeClean was called with
  clCleanResult,   \* "pending" | "true" | "false" | "threw"
  clConfirms,      \* how often the user confirmed the dialog
  onCloseCompleteCalls, \* the calls of the onCloseComplete prop
  \* the repository, as git holds it
  repo,            \* its worktrees, in git's listing order
  gitBranches,     \* its branches, in git's listing order
  \* the configuration getConfig() returns
  config,
  \* create panel
  argvFrom,        \* argv.from, as parseArguments read it
  quickCreateName, \* props
  fromBranch,
  existingBranch,
  crStep,          \* state.step, "off" when the panel is not mounted
  crError,         \* state.error
  directoryName,   \* state.directoryName
  sourceBranch,    \* state.sourceBranch
  newBranch,       \* state.newBranch
  currentCommandIndex, \* state.currentCommandIndex
  branches,        \* the loaded branch list
  crLoading,       \* loading
  repoPath,
  crPc,            \* the call the create sequence awaits
  run,             \* what the closure of the create sequence holds
  createCalls,     \* the createWorktree calls, each with the entry point it came from
  crGitCalls,      \* the state-changing git operations the panel issued
  crCreated,       \* the paths of the worktrees createWorktree created
  crOutcomes,      \* how each create sequence ended
  \* list panel
  navigationMode,  \* "off" when the panel is not mounted
  worktrees,       \* the loaded non-main worktrees
  loading,
  listError,       \* error
  selectedIndex,
  selectedForDeletion, \* a Set: its elements in insertion order
  batchDeleteResult,   \* <<>> for null, else <<result>>
  currentlyDeleting,
  loadPc,          \* where loadWorktrees stands
  batchPc,         \* where executeBatchDelete stands
  pathsToDelete,   \* executeBatchDelete's pathsToDelete
  batchIndex,      \* the position of its loop in pathsToDelete
  result,          \* executeBatchDelete's result
  batchWorktrees,  \* the worktrees its closure holds
  deleteCalls,     \* the deleteWorktree calls of the latest batch
  selectedWorktree, \* <<>> for null, else <<worktree>>
  \* the branch-prefix rule on its own
  pfPhase,    \* "off" | "input" | "once" | "twice"
  pfName,     \* the entered branch name
  pfPrefix,   \* the configured prefix
  pfOnce,     \* applyBranchPrefix(name, prefix)
  pfTwice,     \* applyBranchPrefix(applyBranchPrefix(name, prefix), prefix)
  \* close panel getTargetPath on its own
  tpPhase,  \* "off" | "input" | "returned"
  tpMainRepoPath,  \* mainRepoPath
  tpWorktreePath,  \* worktreePath
  tpOriginalCwd,  \* originalCwd
  tpResult,  \* what getTargetPath returned
  \* the configuration service
  cfPhase,  \* off, or "ready": a ConfigService has been constructed
  cfConfig,  \* this.config
  cfConfigPath,  \* this.configPath
  cfFiles,  \* the content of the global and of the local configuration file
  cfLast,  \* the last call on the service: its arguments, its file-system calls, its outcome
  \* WorktreeService.deleteWorktree
  dlPc,  \* off, idle, or the git command deleteWorktree waits for
  dlCall,  \* the arguments of the call and the branch of its worktree
  dlLog,  \* what the call has done to the repository so far
  \* the create panel under an AppRouter that renders again
  rrRenders,  \* how often AppRouter has rendered again while the create panel is mounted
  rrPending,  \* the create sequences in flight besides the newest, each with its step
  \* the command line and the prefix panel
  argv,  \* process.argv.slice(2), as tokens
  parsedArgs,  \* <<>>, or <<what parseArguments returned>>
  appProps,  \* <<>>, or <<the props main renders <App> with>>
  ppStep,  \* the prefix panel's step, "off" when it is not mounted
  ppError,  \* the prefix panel's error
  ppPc,  \* "off", "effect", "idle", or the call handleSavePrefix awaits
  savePrefixCalls,  \* the calls of handleSavePrefix, each with the text it was derived from
  \* what the user typed at the new-branch prompt
  newBranchEntry,  \* <<>>, or <<the text handleNewBranchSubmit was last called with>>
  \* the three getTargetPath functions side by side
  gtSourceRoot,  \* the root the user stands in (close: worktreePath; create, list: gitRoot)
  gtDestRoot,  \* the root to navigate to (close: mainRepoPath; create, list: worktreePath)
  gtOriginalCwd,  \* originalCwd
  gtClose,  \* what the close panel's getTargetPath returned, <<>> before the call
  gtCreate,  \* what the create panel's getTargetPath returned, <<>> before the call
  gtList  \* what the list panel's getTargetPath returned, <<>> before the call

pfVars == <<pfPhase, pfName, pfPrefix, pfOnce, pfTwice>>

appVars == <<isFromWrapper, ORIGINAL_CWD, existing, stdout, hasExited>>

clVars == <<clStep, clError, clCurrentWorktreePath, clMainRepoPath, clBranchName,
            clPc, clInfo, clInfoStatus, clCleanCalls, clCleanResult, clConfirms,
            onCloseCompleteCalls>>

lsVars == <<navigationMode, worktrees, loading, listError, selectedIndex,
            selectedForDeletion, batchDeleteResult, currentlyDeleting, loadPc,
            batchPc, pathsToDelete, batchIndex, result, batchWorktrees, deleteCalls,
            selectedWorktree>>

gitVars == <<repo, gitBranches>>

crVars == <<argvFrom, quickCreateName, fromBranch, existingBranch, crStep, crError,
            directoryName, sourceBranch, newBranch, currentCommandIndex, branches,
            crLoading, repoPath, crPc, run, createCalls, crGitCalls, crCreated,
            crOutcomes>>

tpVars == <<tpPhase, tpMainRepoPath, tpWorktreePath, tpOriginalCwd, tpResult>>

cfVars == <<cfPhase, cfConfig, cfConfigPath, cfFiles, cfLast>>

dlVars == <<dlPc, dlCall, dlLog>>

rrVars == <<rrRenders, rrPending>>

cliVars == <<argv, parsedArgs, appProps, ppStep, ppError, ppPc, savePrefixCalls>>

entryVars == <<newBranchEntry>>

gtVars == <<gtSourceRoot, gtDestRoot, gtOriginalCwd, gtClose, gtCreate, gtList>>

vars == <<appVars, gitVars, config, crVars, clVars, lsVars, pfVars, tpVars, cfVars, dlVars, rrVars, cliVars, entryVars, gtVars>>

\* DEFAULT_CONFIG, as the README documents it.
DEFAULT_CONFIG ==
  [worktreeCopyPatterns |-> <<".env*", ".vscode/**">>,
   postCreateCmd |-> <<>>,
   terminalCommand |-> <<>>,
   deleteBranchWithWorktree |-> FALSE,
   branchPrefix |-> <<>>,
   defaultSourceBranch |-> <<>>]

NoError == [kind |-> "none", arg |-> <<>>]

NoRun == [via |-> "none", name |-> <<>>, sourceBranch |-> <<>>, newBranch |-> <<>>,
          worktreePath |-> <<>>, command |-> 0, progress |-> <<>>]

\* The create panel is not mounted: it has no state.
CreateOff ==
  /\ argvFrom = Absent
  /\ quickCreateName = Absent
  /\ fromBranch = Absent
  /\ existingBranch = Absent
  /\ crStep = "off"
  /\ crError = NoError
  /\ directoryName = <<>>
  /\ sourceBranch = <<>>
  /\ newBranch = <<>>
  /\ currentCommandIndex = 0
  /\ branches = <<>>
  /\ crLoading = FALSE
  /\ repoPath = Absent
  /\ crPc = "off"
  /\ run = NoRun
  /\ createCalls = <<>>
  /\ crGitCalls = <<>>
  /\ crCreated = <<>>
  /\ crOutcomes = <<>>

\* What each part of the program leaves alone.
outsidePrefix == <<appVars, gitVars, config, crVars, clVars, lsVars, tpVars, cfVars, dlVars, rrVars, cliVars, entryVars, gtVars>>
outsideClose == <<gitVars, config, crVars, lsVars, pfVars, tpVars, cfVars, dlVars, rrVars, cliVars, entryVars, gtVars>>
outsideList == <<gitBranches, config, crVars, clVars, pfVars, tpVars, cfVars, dlVars, rrVars, cliVars, entryVars, gtVars>>
outsideCreate == <<clVars, lsVars, pfVars, tpVars, cfVars, dlVars, rrVars, cliVars, entryVars, gtVars>>
outsideTarget == <<appVars, gitVars, config, crVars, clVars, lsVars, pfVars, cfVars, dlVars, rrVars, cliVars, entryVars, gtVars>>
outsideConfigService == <<appVars, gitVars, config, crVars, clVars, lsVars, pfVars, tpVars, dlVars, rrVars, cliVars, entryVars, gtVars>>
outsideDelete == <<appVars, config, crVars, clVars, lsVars, pfVars, tpVars, cfVars, rrVars, cliVars, entryVars, gtVars>>
outsideRouter == <<appVars, gitVars, config, crVars, clVars, lsVars, pfVars, tpVars, cfVars, dlVars, cliVars, entryVars, gtVars>>
outsideCli == <<gitVars, crVars, clVars, lsVars, pfVars, tpVars, cfVars, dlVars, rrVars, entryVars, gtVars>>
outsideThree == <<appVars, gitVars, config, crVars, clVars, lsVars, pfVars, tpVars, cfVars, dlVars, rrVars, cliVars, entryVars>>

EmptyResult == [success |-> <<>>, failed |-> <<>>]

\* The list panel is not mounted: it has no state.
ListOff ==
  /\ navigationMode = "off"
  /\ worktrees = <<>>
  /\ loading = FALSE
  /\ listError = None
  /\ selectedIndex = 0
  /\ selectedForDeletion = <<>>
  /\ batchDeleteResult = <<>>
  /\ currentlyDeleting = Absent
  /\ loadPc = "off"
  /\ batchPc = "off"
  /\ pathsToDelete = <<>>
  /\ batchIndex = 0
  /\ result = EmptyResult
  /\ batchWorktrees = <<>>
  /\ deleteCalls = <<>>
  /\ selectedWorktree = <<>>

\* The process before any panel acted, not started from the wrapper.
AppOff ==
  /\ isFromWrapper = FALSE
  /\ ORIGINAL_CWD = Absent
  /\ existing = {}
  /\ stdout = <<>>
  /\ hasExited = FALSE

NoInfo == [isWorktree |-> FALSE, worktreePath |-> Absent, mainRepoPath |-> Absent,
           branch |-> Absent]

\* The close panel is not mounted.
CloseOff ==
  /\ clStep = "off"
  /\ clError = None
  /\ clCurrentWorktreePath = Absent
  /\ clMainRepoPath = Absent
  /\ clBranchName = Absent
  /\ clPc = "off"
  /\ clInfo = NoInfo
  /\ clInfoStatus = "pending"
  /\ clCleanCalls = <<>>
  /\ clCleanResult = "pending"
  /\ clConfirms = 0
  /\ onCloseCompleteCalls = <<>>

PrefixOff ==
  /\ pfPhase = "off"
  /\ pfName = <<>>
  /\ pfPrefix = <<>>
  /\ pfOnce = <<>>
  /\ pfTwice = <<>>

\* getTargetPath is not under study.
TargetOff ==
  /\ tpPhase = "off"
  /\ tpMainRepoPath = Absent
  /\ tpWorktreePath = Absent
  /\ tpOriginalCwd = Absent
  /\ tpResult = Absent

\* No ConfigService is under study.
ConfigServiceOff ==
  /\ cfPhase = "off"
  /\ cfConfig = <<>>
  /\ cfConfigPath = "undefined"
  /\ cfFiles = <<>>
  /\ cfLast = <<>>

\* No deleteWorktree is under study.
DeleteOff ==
  /\ dlPc = "off"
  /\ dlCall = <<>>
  /\ dlLog = <<>>

\* AppRouter has rendered once.
RouterOff ==
  /\ rrRenders = 0
  /\ rrPending = <<>>

\* The command line is not under study.
CliOff ==
  /\ argv = <<>>
  /\ parsedArgs = <<>>
  /\ appProps = <<>>
  /\ ppStep = "off"
  /\ ppError = None
  /\ ppPc = "off"
  /\ savePrefixCalls = <<>>

\* Nothing was entered at the new-branch prompt.
EntryOff ==
  /\ newBranchEntry = <<>>

\* The three functions are not under comparison.
ThreeOff ==
  /\ gtSourceRoot = Absent
  /\ gtDestRoot = Absent
  /\ gtOriginalCwd = Absent
  /\ gtClose = <<>>
  /\ gtCreate = <<>>
  /\ gtList = <<>>

\* ---------------------------------------- the branch-prefix rule on its own

PrefixInit ==
  /\ ThreeOff
  /\ EntryOff
  /\ CliOff
  /\ RouterOff
  /\ DeleteOff
  /\ ConfigServiceOff
  /\ TargetOff
  /\ AppOff
  /\ repo = <<>>
  /\ gitBranches = <<>>
  /\ config = DEFAULT_CONFIG
  /\ CreateOff
  /\ CloseOff
  /\ ListOff
  /\ pfPhase = "input"
  /\ pfName \in StringsUpTo(MaxStrLen)
  /\ pfPrefix \in StringsUpTo(MaxStrLen)
  /\ pfOnce = <<>>
  /\ pfTwice = <<>>

ApplyPrefixOnce ==
  /\ pfPhase = "input"
  /\ pfOnce' = applyBranchPrefix(pfName, pfPrefix)
  /\ pfPhase' = "once"
  /\ UNCHANGED <<pfName, pfPrefix, pfTwice>>
  /\ UNCHANGED outsidePrefix

ApplyPrefixAgain ==
  /\ pfPhase = "once"
  /\ pfTwice' = applyBranchPrefix(pfOnce, pfPrefix)
  /\ pfPhase' = "twice"
  /\ UNCHANGED <<pfName, pfPrefix, pfOnce>>
  /\ UNCHANGED outsidePrefix

PrefixNext ==
  \/ ApplyPrefixOnce
  \/ ApplyPrefixAgain

SpecPrefix == PrefixInit /\ [][PrefixNext]_vars

\* C7: applying the branch-prefix rule to its own result changes nothing:
\* applyBranchPrefix(applyBranchPrefix(n, p), p) = applyBranchPrefix(n, p)
\* for every name n and prefix p.
C7_PrefixIdempotent ==
  pfPhase = "twice" => pfTwice = pfOnce

\* The prefix was prepended by the first application and is not prepended
\* a second time.
C7_Witness ==
  /\ pfPhase = "twice"
  /\ pfPrefix # <<>>
  /\ pfName # <<>>
  /\ ~StartsWith(pfName, pfPrefix)
  /\ pfOnce = pfPrefix \o pfName
  /\ pfTwice = pfOnce

\* C8: with a non-empty prefix p and a non-empty name n the result is p
\* followed by n when n does not start with p and n itself when it does;
\* with an empty prefix the result is n.
C8_PrefixRule ==
  pfPhase \in {"once", "twice"} =>
    /\ (pfPrefix # <<>> /\ pfName # <<>> /\ ~StartsWith(pfName, pfPrefix))
         => pfOnce = pfPrefix \o pfName
    /\ (pfPrefix # <<>> /\ pfName # <<>> /\ StartsWith(pfName, pfPrefix))
         => pfOnce = pfName
    /\ pfPrefix = <<>> => pfOnce = pfName

\* A name that contains the prefix, but not at its start, gets the prefix.
C8_Witness ==
  /\ pfPhase = "once"
  /\ pfPrefix = <<"a", "/">>
  /\ pfName = <<"b", "a", "/">>
  /\ pfOnce = <<"a", "/", "b", "a", "/">>

\* ------------------------------------------------------------- close panel

MainRepo == <<"r", "main">>
Worktree == <<"r", "wt">>

\* Where the user may stand when the process starts.
CwdChoices ==
  {Worktree, Worktree \o <<"sub">>, Worktree \o <<"..x">>, MainRepo}

\* What may exist on disk below the main repository.
ExistingChoices ==
  {{MainRepo, Worktree, Worktree \o <<"sub">>, Worktree \o <<"..x">>} \cup extra :
     extra \in SUBSET {MainRepo \o <<"sub">>, MainRepo \o <<"..x">>}}

\* MESSAGES.* of the close flow
CLOSE_NOT_IN_WORKTREE == "CLOSE_NOT_IN_WORKTREE"
CLOSE_HAS_UNCOMMITTED_CHANGES == "CLOSE_HAS_UNCOMMITTED_CHANGES"
CLOSE_REQUIRES_SHELL_INTEGRATION == "CLOSE_REQUIRES_SHELL_INTEGRATION"
\* error.message of a rejected git query
GitQueryError == "GitQueryError"

\* What getCurrentWorktreeInfo may answer.
InfoChoices ==
  [isWorktree : BOOLEAN, worktreePath : {Absent, Worktree},
   mainRepoPath : {Absent, MainRepo}, branch : {Absent, <<"a">>}]

\* AppRouter renders <CloseWorktree> without an originalCwd prop.
RouterCloseOriginalCwd(cwd) == Absent

\* A slip: the isWorktree flag is not looked at.
NotInWorktree_PathsOnly(info) ==
  info.worktreePath = Absent \/ info.mainRepoPath = Absent

\* checkCurrentWorktree: !info.isWorktree || !info.worktreePath || !info.mainRepoPath
NotInWorktree(info) ==
  ~info.isWorktree \/ info.worktreePath = Absent \/ info.mainRepoPath = Absent

\* A slip: the wrapper check is left out.
ShellIntegrationMissing_Never(fromWrapper) == FALSE

\* handleConfirm: !isFromWrapper
ShellIntegrationMissing(fromWrapper) == ~fromWrapper

CloseInit ==
  /\ ThreeOff
  /\ EntryOff
  /\ CliOff
  /\ RouterOff
  /\ DeleteOff
  /\ ConfigServiceOff
  /\ TargetOff
  /\ isFromWrapper \in BOOLEAN
  /\ ORIGINAL_CWD \in CwdChoices
  /\ existing \in ExistingChoices
  /\ stdout = <<>>
  /\ hasExited = FALSE
  /\ clStep = "checking"
  /\ clError = None
  /\ clCurrentWorktreePath = Absent
  /\ clMainRepoPath = Absent
  /\ clBranchName = Absent
  /\ clPc = "getCurrentWorktreeInfo"
  /\ clInfo = NoInfo
  /\ clInfoStatus = "pending"
  /\ clCleanCalls = <<>>
  /\ clCleanResult = "pending"
  /\ clConfirms = 0
  /\ onCloseCompleteCalls = <<>>
  /\ repo = <<>>
  /\ gitBranches = <<>>
  /\ config = DEFAULT_CONFIG
  /\ CreateOff
  /\ ListOff
  /\ PrefixOff

\* A slip: a failed gate shows the error on the checking screen.
CloseSetError_StaysChecking(msg) ==
  /\ clStep' = "checking"
  /\ clError' = msg
  /\ clCurrentWorktreePath' = Absent
  /\ clMainRepoPath' = Absent
  /\ clBranchName' = Absent

\* setState({ step: "error", error }): the other fields are dropped.
CloseSetError(msg) ==
  /\ clStep' = "error"
  /\ clError' = msg
  /\ clCurrentWorktreePath' = Absent
  /\ clMainRepoPath' = Absent
  /\ clBranchName' = Absent

\* checkCurrentWorktree, from the answer of getCurrentWorktreeInfo to the
\* call of isWorktreeClean or to the error state.
GetCurrentWorktreeInfoReturns ==
  /\ ~hasExited
  /\ clPc = "getCurrentWorktreeInfo"
  /\ \E info \in InfoChoices :
       /\ clInfo' = info
       /\ clInfoStatus' = "returned"
       /\ IF NotInWorktree(info)
          THEN /\ CloseSetError(CLOSE_NOT_IN_WORKTREE)
               /\ clPc' = "done"
               /\ UNCHANGED clCleanCalls
          ELSE /\ clCleanCalls' = Append(clCleanCalls, info.worktreePath)
               /\ clPc' = "isWorktreeClean"
               /\ UNCHANGED <<clStep, clError, clCurrentWorktreePath, clMainRepoPath,
                              clBranchName>>
  /\ UNCHANGED <<clCleanResult, clConfirms, onCloseCompleteCalls>>
  /\ UNCHANGED <<appVars, outsideClose>>

\* checkCurrentWorktree: getCurrentWorktreeInfo rejects, the catch block.
GetCurrentWorktreeInfoThrows ==
  /\ ~hasExited
  /\ clPc = "getCurrentWorktreeInfo"
  /\ clInfoStatus' = "threw"
  /\ CloseSetError(GitQueryError)
  /\ clPc' = "done"
  /\ UNCHANGED <<clInfo, clCleanCalls, clCleanResult, clConfirms, onCloseCompleteCalls>>
  /\ UNCHANGED <<appVars, outsideClose>>

\* checkCurrentWorktree, from the answer of isWorktreeClean to its end.
IsWorktreeCleanReturns ==
  /\ ~hasExited
  /\ clPc = "isWorktreeClean"
  /\ \E isClean \in BOOLEAN :
       IF ~isClean
       THEN /\ clCleanResult' = "false"
            /\ CloseSetError(CLOSE_HAS_UNCOMMITTED_CHANGES)
       ELSE /\ clCleanResult' = "true"
            /\ clStep' = "confirm"
            /\ clError' = None
            /\ clCurrentWorktreePath' = clInfo.worktreePath
            /\ clMainRepoPath' = clInfo.mainRepoPath
            /\ clBranchName' = clInfo.branch
  /\ clPc' = "done"
  /\ UNCHANGED <<clInfo, clInfoStatus, clCleanCalls, clConfirms, onCloseCompleteCalls>>
  /\ UNCHANGED <<appVars, outsideClose>>

\* checkCurrentWorktree: isWorktreeClean rejects, the catch block.
IsWorktreeCleanThrows ==
  /\ ~hasExited
  /\ clPc = "isWorktreeClean"
  /\ clCleanResult' = "threw"
  /\ CloseSetError(GitQueryError)
  /\ clPc' = "done"
  /\ UNCHANGED <<clInfo, clInfoStatus, clCleanCalls, clConfirms, onCloseCompleteCalls>>
  /\ UNCHANGED <<appVars, outsideClose>>

\* A slip: the two arguments change places.
ClosePayload_Swapped(targetPath, worktreePath) ==
  [navigateTo |-> worktreePath, deleteWorktree |-> targetPath]

\* onCloseComplete(targetPath, state.currentWorktreePath)
ClosePayload(targetPath, worktreePath) ==
  [navigateTo |-> targetPath, deleteWorktree |-> worktreePath]

\* The user confirms the dialog: handleConfirm, and AppRouter's
\* onCloseComplete, which writes the payload and exits.
CloseHandleConfirm ==
  /\ ~hasExited
  /\ clStep = "confirm"
  /\ clConfirms' = clConfirms + 1
  /\ IF clCurrentWorktreePath = Absent \/ clMainRepoPath = Absent
     THEN UNCHANGED <<clStep, clError, clCurrentWorktreePath, clMainRepoPath,
                      clBranchName, onCloseCompleteCalls, stdout, hasExited>>
     ELSE IF ShellIntegrationMissing(isFromWrapper)
     THEN /\ CloseSetError(CLOSE_REQUIRES_SHELL_INTEGRATION)
          /\ UNCHANGED <<onCloseCompleteCalls, stdout, hasExited>>
     ELSE LET targetPath == closeGetTargetPath(clMainRepoPath, clCurrentWorktreePath,
                                               RouterCloseOriginalCwd(ORIGINAL_CWD),
                                               existing)
              call == ClosePayload(targetPath, clCurrentWorktreePath)
          IN  /\ clStep' = "closing"
              /\ onCloseCompleteCalls' = Append(onCloseCompleteCalls, call)
              /\ stdout' = Append(stdout, [kind |-> "json", navigateTo |-> call.navigateTo,
                                           deleteWorktree |-> call.deleteWorktree])
              /\ hasExited' = TRUE
              /\ UNCHANGED <<clError, clCurrentWorktreePath, clMainRepoPath, clBranchName>>
  /\ UNCHANGED <<clPc, clInfo, clInfoStatus, clCleanCalls, clCleanResult>>
  /\ UNCHANGED <<isFromWrapper, ORIGINAL_CWD, existing, outsideClose>>

\* The user declines the dialog: onCancel is AppRouter's onExit.
CloseCancel ==
  /\ ~hasExited
  /\ clStep = "confirm"
  /\ hasExited' = TRUE
  /\ UNCHANGED <<isFromWrapper, ORIGINAL_CWD, existing, stdout, clVars, outsideClose>>

\* useInput: any key in the error state exits.
CloseErrorKey ==
  /\ ~hasExited
  /\ clStep = "error"
  /\ hasExited' = TRUE
  /\ UNCHANGED <<isFromWrapper, ORIGINAL_CWD, existing, stdout, clVars, outsideClose>>

CloseNext ==
  \/ GetCurrentWorktreeInfoReturns
  \/ GetCurrentWorktreeInfoThrows
  \/ IsWorktreeCleanReturns
  \/ IsWorktreeCleanThrows
  \/ CloseHandleConfirm
  \/ CloseCancel
  \/ CloseErrorKey

SpecClose == CloseInit /\ [][CloseNext]_vars

\* C9: the close flow shows the confirm dialog only after
\* getCurrentWorktreeInfo reported a non-main worktree with both paths and
\* isWorktreeClean answered true for that worktree path; a negative first
\* check ends in 'error' with the not-in-worktree message and without any
\* isWorktreeClean call, a negative second check ends in 'error' with the
\* uncommitted-changes message.
C9_ClosePreconditions ==
  /\ clStep \in {"confirm", "closing"} =>
       /\ clInfoStatus = "returned"
       /\ clInfo.isWorktree
       /\ clInfo.worktreePath # Absent
       /\ clInfo.mainRepoPath # Absent
       /\ clCleanCalls = <<clInfo.worktreePath>>
       /\ clCleanResult = "true"
  /\ ( /\ clInfoStatus = "returned"
       /\ (~clInfo.isWorktree \/ clInfo.worktreePath = Absent
           \/ clInfo.mainRepoPath = Absent) ) =>
       /\ clStep = "error"
       /\ clError = CLOSE_NOT_IN_WORKTREE
       /\ clCleanCalls = <<>>
  /\ clInfoStatus = "threw" => (clStep = "error" /\ clCleanCalls = <<>>)
  /\ clCleanResult = "false" =>
       /\ clStep = "error"
       /\ clError = CLOSE_HAS_UNCOMMITTED_CHANGES
  /\ clCleanResult = "threw" => clStep = "error"
  /\ clPc = "done" => clStep \in {"confirm", "closing", "error"}

\* A path is reported but the directory is the main repository: the flow
\* ended in error and never asked whether the worktree is clean.
C9_Witness ==
  /\ clInfoStatus = "returned"
  /\ ~clInfo.isWorktree
  /\ clInfo.worktreePath # Absent
  /\ clInfo.mainRepoPath # Absent
  /\ clStep = "error"
  /\ clError = CLOSE_NOT_IN_WORKTREE
  /\ clCleanCalls = <<>>

\* C10: confirming the close without the shell wrapper ends in 'error' with
\* the requires-shell-integration message and never calls onCloseComplete;
\* with the wrapper, onCloseComplete is called exactly once, with the
\* computed target path and the current worktree path.
C10_CloseConfirm ==
  /\ ~isFromWrapper => onCloseCompleteCalls = <<>>
  /\ clConfirms = 0 => onCloseCompleteCalls = <<>>
  /\ (clConfirms > 0 /\ ~isFromWrapper) =>
       /\ clStep = "error"
       /\ clError = CLOSE_REQUIRES_SHELL_INTEGRATION
  /\ (clConfirms > 0 /\ isFromWrapper) =>
       /\ clStep = "closing"
       /\ onCloseCompleteCalls =
            << [navigateTo |-> closeGetTargetPath(clInfo.mainRepoPath, clInfo.worktreePath,
                                                  RouterCloseOriginalCwd(ORIGINAL_CWD),
                                                  existing),
                deleteWorktree |-> clInfo.worktreePath] >>

\* The user confirmed without the wrapper.
C10_Witness ==
  /\ clConfirms = 1
  /\ ~isFromWrapper
  /\ clStep = "error"
  /\ clError = CLOSE_REQUIRES_SHELL_INTEGRATION
  /\ onCloseCompleteCalls = <<>>

\* -------------------------------------------------------------- list panel

WorktreeNames == <<"w1", "w2", "w3", "w4", "w5">>

WorktreePath(i) == <<"r", WorktreeNames[i]>>

\* The main worktree, as getRepositoryInfo lists it.
MainWorktree ==
  [path |-> MainRepo, branch |-> <<"m">>, isMain |-> TRUE, isClean |-> TRUE]

\* The repositories the panel may be started on: the main worktree and up
\* to MaxWorktrees additional ones, each clean or not.
RepoChoices ==
  {<<MainWorktree>> \o [i \in 1..n |-> [path |-> WorktreePath(i),
                                        branch |-> <<"f", WorktreeNames[i]>>,
                                        isMain |-> FALSE,
                                        isClean |-> i \notin dirty]] :
     n \in 0..MaxWorktrees, dirty \in {{}, {2}}}

\* error.message of a rejected git command
GitCommandError == "GitCommandError"

RECURSIVE SeqFilterPaths(_, _)
\* the elements of the sequence of paths s that are in the set keep
SeqFilterPaths(s, keep) ==
  IF s = <<>> THEN <<>>
  ELSE IF Head(s) \in keep THEN <<Head(s)>> \o SeqFilterPaths(Tail(s), keep)
  ELSE SeqFilterPaths(Tail(s), keep)

RECURSIVE NonMain(_)
\* repoInfo.worktrees.filter((wt) => !wt.isMain)
NonMain(wts) ==
  IF wts = <<>> THEN <<>>
  ELSE IF Head(wts).isMain THEN NonMain(Tail(wts))
  ELSE <<Head(wts)>> \o NonMain(Tail(wts))

RECURSIVE WithoutPath(_, _)
\* WorktreeService.deleteWorktree, when it succeeds: the worktree is gone.
WithoutPath(wts, path) ==
  IF wts = <<>> THEN <<>>
  ELSE IF Head(wts).path = path THEN WithoutPath(Tail(wts), path)
  ELSE <<Head(wts)>> \o WithoutPath(Tail(wts), path)

PathsOf(wts) == {wts[i].path : i \in 1..Len(wts)}

ElementsOf(s) == {s[i] : i \in 1..Len(s)}

\* A slip: git is asked again for the state of the worktree.
ForceFor_FreshCheck(wts, path) ==
  \E i \in DOMAIN repo : repo[i].path = path /\ ~repo[i].isClean

\* worktrees.find((wt) => wt.path === path); force = worktree ? !worktree.isClean : false
ForceFor(wts, path) ==
  IF \E i \in 1..Len(wts) : wts[i].path = path
  THEN LET first == CHOOSE i \in 1..Len(wts) :
                      /\ wts[i].path = path
                      /\ \A j \in 1..(i - 1) : wts[j].path # path
       IN  ~wts[first].isClean
  ELSE FALSE

\* A slip: the selection is left as it is when the list is loaded.
CleanedSelection_Kept(selection, wts) == selection

\* loadWorktrees: the selected paths that are still in the list, in their order
CleanedSelection(selection, wts) == SeqFilterPaths(selection, PathsOf(wts))

\* toggleSelection on the insertion-ordered Set
ToggledSelection(selection, path) ==
  IF path \in ElementsOf(selection)
  THEN SeqFilterPaths(selection, ElementsOf(selection) \ {path})
  ELSE Append(selection, path)

\* A slip: the failure is swallowed.
PushFailed_Dropped(res, path, message) == res

\* result.failed.push({ path, error })
PushFailed(res, path, message) ==
  [res EXCEPT !.failed = Append(@, [path |-> path, error |-> message])]

\* result.success.push(path)
PushSuccess(res, path) ==
  [res EXCEPT !.success = Append(@, path)]

\* A slip: try/catch around the loop, so that a failure ends it.
IndexAfterFailure_Abort(i, n) == n + 1

\* The catch block is inside the for loop: the loop goes on with the next path.
IndexAfterFailure(i, n) == i + 1

ListInit ==
  /\ ThreeOff
  /\ EntryOff
  /\ CliOff
  /\ RouterOff
  /\ DeleteOff
  /\ ConfigServiceOff
  /\ TargetOff
  /\ isFromWrapper \in BOOLEAN
  /\ ORIGINAL_CWD = MainRepo
  /\ existing = {}
  /\ stdout = <<>>
  /\ hasExited = FALSE
  /\ repo \in RepoChoices
  /\ navigationMode = "list"
  /\ worktrees = <<>>
  /\ loading = TRUE
  /\ listError = None
  /\ selectedIndex = 0
  /\ selectedForDeletion = <<>>
  /\ batchDeleteResult = <<>>
  /\ currentlyDeleting = Absent
  /\ loadPc = "getRepositoryInfo"
  /\ batchPc = "idle"
  /\ pathsToDelete = <<>>
  /\ batchIndex = 0
  /\ result = EmptyResult
  /\ batchWorktrees = <<>>
  /\ deleteCalls = <<>>
  /\ selectedWorktree = <<>>
  /\ gitBranches = <<>>
  /\ config = DEFAULT_CONFIG
  /\ CreateOff
  /\ CloseOff
  /\ PrefixOff

ListMounted == navigationMode # "off" /\ ~hasExited

\* loadWorktrees, from the answer of getRepositoryInfo to its end.
LoadWorktreesReturns ==
  /\ ListMounted
  /\ loadPc = "getRepositoryInfo"
  /\ LET additionalWorktrees == NonMain(repo)
     IN  /\ worktrees' = additionalWorktrees
         /\ selectedForDeletion' =
              CleanedSelection(selectedForDeletion, additionalWorktrees)
  /\ loading' = FALSE
  /\ loadPc' = "idle"
  /\ UNCHANGED <<navigationMode, listError, selectedIndex, batchDeleteResult,
                 currentlyDeleting, batchPc, pathsToDelete, batchIndex, result,
                 batchWorktrees, deleteCalls>>
  /\ UNCHANGED <<selectedWorktree, appVars, repo, outsideList>>

\* loadWorktrees: getRepositoryInfo rejects.
LoadWorktreesThrows ==
  /\ ListMounted
  /\ loadPc = "getRepositoryInfo"
  /\ listError' = GitQueryError
  /\ loading' = FALSE
  /\ loadPc' = "idle"
  /\ UNCHANGED <<navigationMode, worktrees, selectedIndex, selectedForDeletion,
                 batchDeleteResult, currentlyDeleting, batchPc, pathsToDelete,
                 batchIndex, result, batchWorktrees, deleteCalls>>
  /\ UNCHANGED <<selectedWorktree, appVars, repo, outsideList>>

\* useInput in list mode: Escape, or any key while no worktree is loaded.
ListKeyBack ==
  /\ ListMounted
  /\ navigationMode = "list"
  \* onBack: the panel is unmounted and its state is gone
  /\ navigationMode' = "off"
  /\ worktrees' = <<>>
  /\ loading' = FALSE
  /\ listError' = None
  /\ selectedIndex' = 0
  /\ selectedForDeletion' = <<>>
  /\ batchDeleteResult' = <<>>
  /\ currentlyDeleting' = Absent
  /\ loadPc' = "off"
  /\ batchPc' = "off"
  /\ pathsToDelete' = <<>>
  /\ batchIndex' = 0
  /\ result' = EmptyResult
  /\ batchWorktrees' = <<>>
  /\ deleteCalls' = <<>>
  /\ selectedWorktree' = <<>>
  /\ UNCHANGED <<appVars, repo, outsideList>>

\* The keys of list mode below the two early returns.
ListKeysLive == ListMounted /\ navigationMode = "list" /\ Len(worktrees) > 0

ListKeyUp ==
  /\ ListKeysLive
  /\ selectedIndex' = IF selectedIndex = 0 THEN Len(worktrees) - 1 ELSE selectedIndex - 1
  /\ UNCHANGED <<navigationMode, worktrees, loading, listError, selectedForDeletion,
                 batchDeleteResult, currentlyDeleting, loadPc, batchPc, pathsToDelete,
                 batchIndex, result, batchWorktrees, deleteCalls>>
  /\ UNCHANGED <<selectedWorktree, appVars, repo, outsideList>>

ListKeyDown ==
  /\ ListKeysLive
  /\ selectedIndex' = IF selectedIndex = Len(worktrees) - 1 THEN 0 ELSE selectedIndex + 1
  /\ selectedIndex' <= MaxSelectedIndex
  /\ UNCHANGED <<navigationMode, worktrees, loading, listError, selectedForDeletion,
                 batchDeleteResult, currentlyDeleting, loadPc, batchPc, pathsToDelete,
                 batchIndex, result, batchWorktrees, deleteCalls>>
  /\ UNCHANGED <<selectedWorktree, appVars, repo, outsideList>>

\* A digit n with 1 <= n <= worktrees.length.
ListKeyDigit ==
  /\ ListKeysLive
  /\ \E numericInput \in 1..Len(worktrees) : selectedIndex' = numericInput - 1
  /\ UNCHANGED <<navigationMode, worktrees, loading, listError, selectedForDeletion,
                 batchDeleteResult, currentlyDeleting, loadPc, batchPc, pathsToDelete,
                 batchIndex, result, batchWorktrees, deleteCalls>>
  /\ UNCHANGED <<selectedWorktree, appVars, repo, outsideList>>

\* Space: toggleSelection(worktrees[selectedIndex].path), if there is one.
ListKeySpace ==
  /\ ListKeysLive
  /\ selectedForDeletion' =
       IF selectedIndex + 1 <= Len(worktrees)
       THEN ToggledSelection(selectedForDeletion, worktrees[selectedIndex + 1].path)
       ELSE selectedForDeletion
  /\ UNCHANGED <<navigationMode, worktrees, loading, listError, selectedIndex,
                 batchDeleteResult, currentlyDeleting, loadPc, batchPc, pathsToDelete,
                 batchIndex, result, batchWorktrees, deleteCalls>>
  /\ UNCHANGED <<selectedWorktree, appVars, repo, outsideList>>

\* 'd' with a non-empty selection.
ListKeyD ==
  /\ ListKeysLive
  /\ selectedForDeletion # <<>>
  /\ navigationMode' = "batch-delete-confirm"
  /\ UNCHANGED <<worktrees, loading, listError, selectedIndex, selectedForDeletion,
                 batchDeleteResult, currentlyDeleting, loadPc, batchPc, pathsToDelete,
                 batchIndex, result, batchWorktrees, deleteCalls>>
  /\ UNCHANGED <<selectedWorktree, appVars, repo, outsideList>>

\* A dialog that stays on screen while the batch runs.
BatchConfirmShown_WhileDeleting ==
  /\ ListMounted
  /\ navigationMode \in {"batch-delete-confirm", "batch-deleting"}
  /\ ~loading
  /\ listError = None
  /\ Len(worktrees) > 0

\* The confirmation dialog is on screen: the renders above it returned nothing.
BatchConfirmShown ==
  /\ ListMounted
  /\ navigationMode = "batch-delete-confirm"
  /\ ~loading
  /\ listError = None
  /\ Len(worktrees) > 0

BatchConfirmCancel ==
  /\ BatchConfirmShown
  /\ navigationMode' = "list"
  /\ UNCHANGED <<worktrees, loading, listError, selectedIndex, selectedForDeletion,
                 batchDeleteResult, currentlyDeleting, loadPc, batchPc, pathsToDelete,
                 batchIndex, result, batchWorktrees, deleteCalls>>
  /\ UNCHANGED <<selectedWorktree, appVars, repo, outsideList>>

\* executeBatchDelete from position i of paths on, with the result res so
\* far: up to the next await of deleteWorktree, or to its end.
BatchContinue(paths, i, res, wts, calls) ==
  /\ result' = res
  /\ batchIndex' = i
  /\ IF i <= Len(paths)
     THEN /\ currentlyDeleting' = paths[i]
          /\ deleteCalls' = Append(calls, [path |-> paths[i],
                                           force |-> ForceFor(wts, paths[i])])
          /\ batchPc' = "deleteWorktree"
          /\ navigationMode' = "batch-deleting"
          /\ UNCHANGED <<batchDeleteResult, selectedForDeletion>>
     ELSE /\ currentlyDeleting' = Absent
          /\ batchDeleteResult' = <<res>>
          /\ selectedForDeletion' = <<>>
          /\ navigationMode' = "batch-delete-result"
          /\ batchPc' = "idle"
          /\ deleteCalls' = calls

\* The user confirms: executeBatchDelete up to its first await.
ExecuteBatchDelete ==
  /\ BatchConfirmShown
  /\ pathsToDelete' = selectedForDeletion
  /\ batchWorktrees' = worktrees
  /\ BatchContinue(selectedForDeletion, 1, EmptyResult, worktrees, <<>>)
  /\ UNCHANGED <<worktrees, loading, listError, selectedIndex, loadPc>>
  /\ UNCHANGED <<selectedWorktree, appVars, repo, outsideList>>

\* The awaited deleteWorktree resolves.
DeleteWorktreeResolves ==
  /\ ListMounted
  /\ batchPc = "deleteWorktree"
  /\ repo' = WithoutPath(repo, pathsToDelete[batchIndex])
  /\ BatchContinue(pathsToDelete, batchIndex + 1,
                   PushSuccess(result, pathsToDelete[batchIndex]),
                   batchWorktrees, deleteCalls)
  /\ UNCHANGED <<worktrees, loading, listError, selectedIndex, loadPc, pathsToDelete,
                 batchWorktrees>>
  /\ UNCHANGED <<selectedWorktree, appVars, outsideList>>

\* The awaited deleteWorktree rejects.
DeleteWorktreeRejects ==
  /\ ListMounted
  /\ batchPc = "deleteWorktree"
  /\ BatchContinue(pathsToDelete, IndexAfterFailure(batchIndex, Len(pathsToDelete)),
                   PushFailed(result, pathsToDelete[batchIndex], GitCommandError),
                   batchWorktrees, deleteCalls)
  /\ UNCHANGED <<worktrees, loading, listError, selectedIndex, loadPc, pathsToDelete,
                 batchWorktrees>>
  /\ UNCHANGED <<selectedWorktree, appVars, repo, outsideList>>

\* Any key on the result screen: back to the list, which is loaded again.
BatchResultKey ==
  /\ ListMounted
  /\ navigationMode = "batch-delete-result"
  /\ batchDeleteResult' = <<>>
  /\ loading' = TRUE
  /\ listError' = None
  /\ loadPc' = "getRepositoryInfo"
  /\ navigationMode' = "list"
  \* executeBatchDelete has returned: its locals are gone
  /\ pathsToDelete' = <<>>
  /\ batchIndex' = 0
  /\ result' = EmptyResult
  /\ batchWorktrees' = <<>>
  /\ deleteCalls' = <<>>
  /\ UNCHANGED <<worktrees, selectedIndex, selectedForDeletion, currentlyDeleting, batchPc>>
  /\ UNCHANGED <<selectedWorktree, appVars, repo, outsideList>>

\* list panel: getTargetPath(worktreePath, gitRoot, originalCwd)
listGetTargetPath(worktreePath, gitRoot, cwd, onDisk) ==
  IF gitRoot = Absent \/ cwd = Absent THEN worktreePath
  ELSE LET relativePath == PathRelative(gitRoot, cwd)
       IN  IF relativePath = <<>> \/ RelStartsWithDotDot(relativePath)
           THEN worktreePath
           ELSE LET targetPath == PathJoin(worktreePath, relativePath)
                IN  IF targetPath \in onDisk THEN targetPath ELSE worktreePath

\* AppRouter renders <ListWorktrees> without originalCwd and gitRoot.
RouterListOriginalCwd(cwd) == Absent
RouterListGitRoot(root) == Absent

\* Enter: with shell integration the path of the worktree under the cursor
\* goes to onPathSelect, which writes it and exits; without, the action
\* menu opens.
ListKeyReturn ==
  /\ ListKeysLive
  /\ IF selectedIndex + 1 <= Len(worktrees)
     THEN LET worktree == worktrees[selectedIndex + 1]
          IN  IF isFromWrapper
              THEN /\ stdout' = Append(stdout,
                         [kind |-> "path",
                          path |-> listGetTargetPath(worktree.path,
                                     RouterListGitRoot(MainRepo),
                                     RouterListOriginalCwd(ORIGINAL_CWD), existing)])
                   /\ hasExited' = TRUE
                   /\ UNCHANGED <<selectedWorktree, navigationMode>>
              ELSE /\ selectedWorktree' = <<worktree>>
                   /\ navigationMode' = "action-menu"
                   /\ UNCHANGED <<stdout, hasExited>>
     ELSE UNCHANGED <<selectedWorktree, navigationMode, stdout, hasExited>>
  /\ UNCHANGED <<worktrees, loading, listError, selectedIndex, selectedForDeletion,
                 batchDeleteResult, currentlyDeleting, loadPc, batchPc, pathsToDelete,
                 batchIndex, result, batchWorktrees, deleteCalls>>
  /\ UNCHANGED <<isFromWrapper, ORIGINAL_CWD, existing, repo, outsideList>>

\* The action menu is on screen. Without shell integration its "cd" entry
\* is disabled, and "command" is offered only with a terminalCommand.
ActionMenuShown ==
  /\ ListMounted
  /\ navigationMode = "action-menu"
  /\ selectedWorktree # <<>>
  /\ ~loading
  /\ listError = None
  /\ Len(worktrees) > 0

\* onCancel of the action menu
ActionMenuCancel ==
  /\ ActionMenuShown
  /\ navigationMode' = "list"
  /\ UNCHANGED <<worktrees, loading, listError, selectedIndex, selectedForDeletion,
                 batchDeleteResult, currentlyDeleting, loadPc, batchPc, pathsToDelete,
                 batchIndex, result, batchWorktrees, deleteCalls, selectedWorktree>>
  /\ UNCHANGED <<appVars, repo, outsideList>>

\* The entries of the action menu: "cd" always (disabled without shell
\* integration), "command" with a terminalCommand.
ActionsOffered ==
  {"cd"} \cup (IF config.terminalCommand # <<>> THEN {"command"} ELSE {})

\* A slip: "cd" navigates without looking at the wrapper.
CdNavigates_Always == TRUE

\* handleActionSelect, case "cd": isFromWrapper && onPathSelect
CdNavigates == isFromWrapper

\* handleActionSelect: "cd" passes the path of the selected worktree as it
\* is to onPathSelect when the wrapper is there and does nothing otherwise;
\* "command" opens the terminal and, when that resolved, calls onBack.
ActionMenuSelect ==
  /\ ActionMenuShown
  /\ \E action \in ActionsOffered, opened \in BOOLEAN :
       IF action = "cd" /\ CdNavigates
       THEN /\ stdout' = Append(stdout, [kind |-> "path", path |-> selectedWorktree[1].path])
            /\ hasExited' = TRUE
            /\ UNCHANGED lsVars
       ELSE IF action = "command" /\ opened
       THEN /\ navigationMode' = "off"
            /\ worktrees' = <<>>
            /\ loading' = FALSE
            /\ listError' = None
            /\ selectedIndex' = 0
            /\ selectedForDeletion' = <<>>
            /\ batchDeleteResult' = <<>>
            /\ currentlyDeleting' = Absent
            /\ loadPc' = "off"
            /\ batchPc' = "off"
            /\ pathsToDelete' = <<>>
            /\ batchIndex' = 0
            /\ result' = EmptyResult
            /\ batchWorktrees' = <<>>
            /\ deleteCalls' = <<>>
            /\ selectedWorktree' = <<>>
            /\ UNCHANGED <<stdout, hasExited>>
       ELSE UNCHANGED <<lsVars, stdout, hasExited>>
  /\ UNCHANGED <<isFromWrapper, ORIGINAL_CWD, existing, repo, outsideList>>

DeleteWorktreeSettles == DeleteWorktreeResolves \/ DeleteWorktreeRejects

ListNext ==
  \/ LoadWorktreesReturns
  \/ LoadWorktreesThrows
  \/ ListKeyBack
  \/ ListKeyUp
  \/ ListKeyDown
  \/ ListKeyDigit
  \/ ListKeySpace
  \/ ListKeyD
  \/ BatchConfirmCancel
  \/ ExecuteBatchDelete
  \/ DeleteWorktreeResolves
  \/ DeleteWorktreeRejects
  \/ BatchResultKey
  \/ ListKeyReturn
  \/ ActionMenuSelect
  \/ ActionMenuCancel

SpecList == ListInit /\ [][ListNext]_vars

\* Every awaited deleteWorktree call settles.
SpecListFair == SpecList /\ WF_vars(DeleteWorktreeSettles)

\* ------------------------------------------------------------ create panel

Branch(name, isCurrent, isDefault) ==
  [name |-> name, isCurrent |-> isCurrent, isDefault |-> isDefault]

\* The branch lists getRepositoryInfo may answer: one with a current
\* branch, one of a detached HEAD with a single branch.
BranchListChoices ==
  { << Branch(<<"m">>, TRUE, TRUE), Branch(<<"d">>, FALSE, FALSE),
       Branch(<<"t", "/", "a">>, FALSE, FALSE) >>,
    << Branch(<<"a">>, FALSE, TRUE) >> }

QuickNameChoices == {Absent, <<"a">>, <<"~">>}
FromChoices == {Absent, <<"d">>}
ExistingBranchChoices == {Absent, <<"t", "/", "a">>}
PrefixChoices == {<<>>, <<"t", "/">>}
DefaultSourceChoices == {<<>>, <<"d">>}
\* What the user may type at the prompts.
DirectoryInputs == {<<"a">>, <<"~">>}
NewBranchInputs == {<<" ">>, <<"a">>}

CommandNames == <<"c1", "c2", "c3", "c4">>

\* Which of the optional steps are configured.
StepChoices ==
  { [copy |-> <<>>, cmds |-> 0, term |-> <<>>],
    [copy |-> <<>>, cmds |-> MaxCommands, term |-> <<>>],
    [copy |-> <<".env*">>, cmds |-> 0, term |-> <<"code .">>],
    [copy |-> <<".env*">>, cmds |-> MaxCommands, term |-> <<"code .">>] }

ConfigChoices ==
  { [DEFAULT_CONFIG EXCEPT !.branchPrefix = p,
                           !.defaultSourceBranch = d,
                           !.worktreeCopyPatterns = st.copy,
                           !.postCreateCmd = [i \in 1..st.cmds |-> CommandNames[i]],
                           !.terminalCommand = st.term] :
      p \in PrefixChoices, d \in DefaultSourceChoices, st \in StepChoices }

Contains(s, c) == \E i \in 1..Len(s) : s[i] = c

RECURSIVE TrimStart(_)
TrimStart(s) == IF s # <<>> /\ Head(s) = " " THEN TrimStart(Tail(s)) ELSE s

RECURSIVE TrimEnd(_)
TrimEnd(s) ==
  IF s # <<>> /\ s[Len(s)] = " " THEN TrimEnd(SubSeq(s, 1, Len(s) - 1)) ELSE s

\* String.prototype.trim
Trim(s) == TrimEnd(TrimStart(s))

\* utils validateDirectoryName: an error text, or undefined
validateDirectoryName(name) ==
  IF Trim(name) = <<>> \/ Contains(name, "/") \/ Contains(name, "~") \/ Contains(name, " ")
  THEN "invalid directory name" ELSE None

\* utils validateBranchName: an error text, or undefined
validateBranchName(name) ==
  IF Trim(name) = <<>> \/ Contains(name, "~") \/ Contains(name, " ")
  THEN "invalid branch name" ELSE None

\* utils getWorktreePath with the default template "$BASE_PATH.worktree":
\* the directory beside the repository, then the name, spelled out.
getWorktreePath(gitRoot, name) == Append(gitRoot, ".worktree") \o name

\* worktreePath.replace(`/${name}`, ""): the first occurrence, which is the
\* last piece here as no name of the model occurs in the repository root.
ParentDir(worktreePath, name) == SubSeq(worktreePath, 1, Len(worktreePath) - Len(name))

\* A create panel that measured the path from the worktree it created.
createGetTargetPath_FromWorktree(worktreePath, gitRoot, cwd, onDisk) ==
  IF gitRoot = Absent \/ cwd = Absent THEN worktreePath
  ELSE LET relativePath == PathRelative(worktreePath, cwd)
       IN  IF relativePath = <<>> \/ RelStartsWithDotDot(relativePath)
           THEN worktreePath
           ELSE LET targetPath == PathJoin(worktreePath, relativePath)
                IN  IF targetPath \in onDisk THEN targetPath ELSE worktreePath

\* create panel: getTargetPath(worktreePath, gitRoot, originalCwd)
createGetTargetPath(worktreePath, gitRoot, cwd, onDisk) ==
  IF gitRoot = Absent \/ cwd = Absent THEN worktreePath
  ELSE LET relativePath == PathRelative(gitRoot, cwd)
       IN  IF relativePath = <<>> \/ RelStartsWithDotDot(relativePath)
           THEN worktreePath
           ELSE LET targetPath == PathJoin(worktreePath, relativePath)
                IN  IF targetPath \in onDisk THEN targetPath ELSE worktreePath

\* AppRouter renders <CreateWorktree> with quickCreateName, and without
\* fromBranch, existingBranch, originalCwd and gitRoot.
RouterQuickCreateName(name) == name
RouterFromBranch(from) == Absent
RouterExistingBranch == Absent
RouterCreateOriginalCwd(cwd) == Absent
RouterCreateGitRoot(root) == Absent

HasBranch(list, name) == \E i \in 1..Len(list) : list[i].name = name

\* branches.find((b) => b.isCurrent)
CurrentBranch(list) ==
  list[CHOOSE i \in 1..Len(list) :
         /\ list[i].isCurrent
         /\ \A j \in 1..(i - 1) : ~list[j].isCurrent]

Failure(kind, arg) == [kind |-> kind, arg |-> arg]

\* A slip: the collision check looks for the name as entered.
QuickCollisionName_Unprefixed(name, prefixedBranchName) == name

\* branches.find((b) => b.name === prefixedBranchName)
QuickCollisionName(name, prefixedBranchName) == prefixedBranchName

\* The quick-create effect up to triggerQuickCreate: what it validates and
\* resolves from the name, the --from branch, the configuration and the
\* loaded branch list.
QuickCreatePlan(name, from, cfg, list) ==
  LET prefix == cfg.branchPrefix
      prefixedBranchName == applyBranchPrefix(name, prefix)
      Rejected(kind, arg) ==
        [ok |-> FALSE, error |-> Failure(kind, arg), directoryName |-> <<>>,
         sourceBranch |-> <<>>, newBranch |-> <<>>]
      Resolved(source) ==
        [ok |-> TRUE, error |-> NoError, directoryName |-> name,
         sourceBranch |-> source, newBranch |-> prefixedBranchName]
  IN  IF validateDirectoryName(name) # None
        THEN Rejected("Invalid name", name)
      ELSE IF validateBranchName(prefixedBranchName) # None
        THEN Rejected("Invalid branch name", prefixedBranchName)
      ELSE IF HasBranch(list, QuickCollisionName(name, prefixedBranchName))
        THEN Rejected("Branch already exists", prefixedBranchName)
      ELSE IF from # Absent
        THEN IF HasBranch(list, from) THEN Resolved(from)
             ELSE Rejected("Specified branch not found", from)
      ELSE IF cfg.defaultSourceBranch # <<>>
        THEN IF HasBranch(list, cfg.defaultSourceBranch)
             THEN Resolved(cfg.defaultSourceBranch)
             ELSE Rejected("Configured default branch not found", cfg.defaultSourceBranch)
      ELSE IF \E i \in 1..Len(list) : list[i].isCurrent
        THEN Resolved(CurrentBranch(list).name)
      ELSE Rejected("Could not determine current branch", <<>>)

\* existingBranch.replace(/\//g, "-")
SlashesToDashes(name) == [i \in 1..Len(name) |-> IF name[i] = "/" THEN "-" ELSE name[i]]

\* A slip: the branch is not looked up in the loaded list.
ExistingBranchPlan_Unchecked(branch, list) ==
  LET derived == SlashesToDashes(branch)
  IN  IF validateDirectoryName(derived) # None
        THEN [ok |-> FALSE, error |-> Failure("Invalid derived directory name", derived),
              directoryName |-> <<>>, sourceBranch |-> <<>>, newBranch |-> <<>>]
      ELSE [ok |-> TRUE, error |-> NoError, directoryName |-> derived,
            sourceBranch |-> branch, newBranch |-> branch]

\* The existing-branch effect up to triggerExistingBranchCreate.
ExistingBranchPlan(branch, list) ==
  LET derived == SlashesToDashes(branch)
  IN  IF ~HasBranch(list, branch)
        THEN [ok |-> FALSE, error |-> Failure("Branch not found", branch),
              directoryName |-> <<>>, sourceBranch |-> <<>>, newBranch |-> <<>>]
      ELSE IF validateDirectoryName(derived) # None
        THEN [ok |-> FALSE, error |-> Failure("Invalid derived directory name", derived),
              directoryName |-> <<>>, sourceBranch |-> <<>>, newBranch |-> <<>>]
      ELSE [ok |-> TRUE, error |-> NoError, directoryName |-> derived,
            sourceBranch |-> branch, newBranch |-> branch]

\* validateNewBranchName of the new-branch prompt: an error text, or undefined
validateNewBranchName(name, cfg, list) ==
  IF Trim(name) = <<>> THEN None
  ELSE LET prefixedName == applyBranchPrefix(name, cfg.branchPrefix)
       IN  IF validateBranchName(prefixedName) # None THEN validateBranchName(prefixedName)
           ELSE IF HasBranch(list, prefixedName) THEN "Branch already exists"
           ELSE None

\* The step that follows a completed one: the optional steps are skipped
\* when they are not configured.
AfterCommands(cfg) == IF cfg.terminalCommand # <<>> THEN "openTerminal" ELSE "success"
\* A slip: the commands are passed over.
AfterCopyFiles_SkipsCommands(cfg) == AfterCommands(cfg)
AfterCopyFiles(cfg) == IF Len(cfg.postCreateCmd) > 0 THEN "commands" ELSE AfterCommands(cfg)
AfterCreateWorktree(cfg) ==
  IF Len(cfg.worktreeCopyPatterns) > 0 THEN "copyFiles" ELSE AfterCopyFiles(cfg)

\* A slip: the catch block removes the worktree it created.
CompensationOnFailure_Rollback(worktreePath) ==
  <<[op |-> "deleteWorktree", path |-> worktreePath]>>

\* The git operations the catch block issues: none.
CompensationOnFailure(worktreePath) == <<>>

\* A slip: the catch block starts over with empty fields.
FieldsAfterFailure_Cleared(dir, source, new) == <<<<>>, <<>>, <<>>>>

\* The catch block: setState((prev) => ({ ...prev, error, step: "directory" }))
FieldsAfterFailure(dir, source, new) == <<dir, source, new>>

RECURSIVE ApplyGitOps(_, _)
\* GitService.deleteWorktree removes a worktree; a createWorktree that
\* succeeded added one.
ApplyGitOps(wts, ops) ==
  IF ops = <<>> THEN wts
  ELSE ApplyGitOps(IF Head(ops).op = "deleteWorktree"
                   THEN WithoutPath(wts, Head(ops).path) ELSE wts,
                   Tail(ops))

\* GitService.createWorktree succeeds only where git worktree add does:
\* the directory is free, the source branch exists, and a new branch does
\* not exist yet.
GitAllowsCreate(wts, list, r) ==
  /\ r.worktreePath \notin PathsOf(wts)
  /\ HasBranch(list, r.sourceBranch)
  /\ r.newBranch # r.sourceBranch => ~HasBranch(list, r.newBranch)

\* repoPath || getRepositoryRoot()
GitRootOr(path) == IF path # Absent THEN path ELSE MainRepo

\* error.message of the step that threw
StepError(step) ==
  CASE step = "createWorktree" -> Failure("GitCommandError", <<>>)
    [] step = "copyFiles" -> Failure("FileSyncError", <<>>)
    [] step = "commands" -> Failure("CommandExecutionError", <<>>)
    [] step = "openTerminal" -> Failure("TerminalError", <<>>)

RunSteps == {"createWorktree", "copyFiles", "commands", "openTerminal"}

CreateMounted == crStep # "off" /\ ~hasExited

\* A slip: every prompt is on screen whatever the step.
Shown_AnyStep(step) ==
  /\ CreateMounted
  /\ ~crLoading
  /\ crError = NoError
  /\ crPc = "idle"

\* What the panel renders: the loading indicator and the error screen come
\* before the prompt of the step.
Shown(step) ==
  /\ CreateMounted
  /\ ~crLoading
  /\ crError = NoError
  /\ crStep = step
  /\ crPc = "idle"

\* The panel as mounted with these props: the mount effect has called
\* loadBranches, which has set loading and awaits getRepositoryInfo.
CreateMountedWith(quick, from, branch) ==
  /\ quickCreateName = quick
  /\ fromBranch = from
  /\ existingBranch = branch
  /\ crStep = "directory"
  /\ crError = NoError
  /\ directoryName = <<>>
  /\ sourceBranch = <<>>
  /\ newBranch = <<>>
  /\ currentCommandIndex = 0
  /\ branches = <<>>
  /\ crLoading = TRUE
  /\ repoPath = Absent
  /\ crPc = "loading"
  /\ run = NoRun
  /\ createCalls = <<>>
  /\ crGitCalls = <<>>
  /\ crCreated = <<>>
  /\ crOutcomes = <<>>

CreateWorld ==
  /\ ThreeOff
  /\ EntryOff
  /\ CliOff
  /\ RouterOff
  /\ DeleteOff
  /\ ConfigServiceOff
  /\ TargetOff
  /\ isFromWrapper \in BOOLEAN
  /\ ORIGINAL_CWD = Absent
  /\ existing = {}
  /\ stdout = <<>>
  /\ hasExited = FALSE
  /\ repo = <<MainWorktree>>
  /\ gitBranches \in BranchListChoices
  /\ config \in ConfigChoices
  /\ CloseOff
  /\ ListOff
  /\ PrefixOff

\* branchlet create [name] [--from branch]: parseArguments, then AppRouter.
CreateInit ==
  /\ CreateWorld
  /\ argvFrom \in FromChoices
  /\ \E name \in QuickNameChoices :
       CreateMountedWith(RouterQuickCreateName(name), RouterFromBranch(argvFrom),
                         RouterExistingBranch)

\* The panel on its own, with every prop it declares.
CreatePanelInit ==
  /\ CreateWorld
  /\ \E name \in QuickNameChoices, from \in FromChoices, branch \in ExistingBranchChoices :
       /\ argvFrom = from
       /\ CreateMountedWith(name, from, branch)

\* The first statements of a trigger or of handleConfirm, up to the await
\* of gitService.createWorktree.
BeginCreate(via, name, source, new, gitRoot) ==
  LET worktreePath == getWorktreePath(gitRoot, name)
  IN  /\ crStep' = "creating"
      /\ crPc' = "createWorktree"
      /\ run' = [via |-> via, name |-> name, sourceBranch |-> source, newBranch |-> new,
                 worktreePath |-> worktreePath, command |-> 0, progress |-> <<>>]
      /\ createCalls' = Append(createCalls,
                               [via |-> via, name |-> name, sourceBranch |-> source,
                                newBranch |-> new,
                                basePath |-> ParentDir(worktreePath, name)])
      /\ crGitCalls' = Append(crGitCalls, [op |-> "createWorktree", path |-> worktreePath])

\* A slip: the effect sets the error of a failed check and goes on to the
\* trigger.
RunPlan_IgnoresRejection(via, plan, gitRoot) ==
  /\ directoryName' = plan.directoryName
  /\ sourceBranch' = plan.sourceBranch
  /\ newBranch' = plan.newBranch
  /\ crError' = plan.error
  /\ BeginCreate(via, plan.directoryName, plan.sourceBranch, plan.newBranch, gitRoot)

\* An effect whose checks passed: setState with the resolved fields, then
\* the trigger. One whose checks failed: setState with the error only.
RunPlan(via, plan, gitRoot) ==
  IF plan.ok
  THEN /\ directoryName' = plan.directoryName
       /\ sourceBranch' = plan.sourceBranch
       /\ newBranch' = plan.newBranch
       /\ crError' = NoError
       /\ BeginCreate(via, plan.directoryName, plan.sourceBranch, plan.newBranch, gitRoot)
  ELSE /\ crError' = plan.error
       /\ crPc' = "idle"
       /\ UNCHANGED <<crStep, directoryName, sourceBranch, newBranch, run, createCalls,
                      crGitCalls>>

\* getRepositoryInfo resolves; the render that follows runs the effects.
LoadBranchesReturns ==
  /\ CreateMounted
  /\ crPc = "loading"
  /\ branches' = gitBranches
  /\ repoPath' = MainRepo
  /\ crLoading' = FALSE
  /\ IF quickCreateName # Absent /\ Len(gitBranches) # 0
     THEN RunPlan("quick",
                  QuickCreatePlan(quickCreateName, fromBranch, config, gitBranches),
                  GitRootOr(MainRepo))
     ELSE IF existingBranch # Absent /\ Len(gitBranches) # 0
     THEN RunPlan("existing", ExistingBranchPlan(existingBranch, gitBranches),
                  GitRootOr(MainRepo))
     ELSE /\ crPc' = "idle"
          /\ UNCHANGED <<crStep, crError, directoryName, sourceBranch, newBranch, run,
                         createCalls, crGitCalls>>
  /\ UNCHANGED <<appVars, gitVars, config, argvFrom, quickCreateName, fromBranch,
                 existingBranch, currentCommandIndex, crCreated, crOutcomes,
                 outsideCreate>>

\* getRepositoryInfo rejects.
LoadBranchesThrows ==
  /\ CreateMounted
  /\ crPc = "loading"
  /\ crError' = Failure("Failed to load branches", <<>>)
  /\ crLoading' = FALSE
  /\ crPc' = "idle"
  /\ UNCHANGED <<appVars, gitVars, config, argvFrom, quickCreateName, fromBranch,
                 existingBranch, crStep, directoryName, sourceBranch, newBranch,
                 currentCommandIndex, branches, repoPath, run, createCalls, crGitCalls,
                 crCreated, crOutcomes, outsideCreate>>

\* The panel is unmounted: its state is gone.
CreateUnmount ==
  /\ argvFrom' = Absent
  /\ quickCreateName' = Absent
  /\ fromBranch' = Absent
  /\ existingBranch' = Absent
  /\ crStep' = "off"
  /\ crError' = NoError
  /\ directoryName' = <<>>
  /\ sourceBranch' = <<>>
  /\ newBranch' = <<>>
  /\ currentCommandIndex' = 0
  /\ branches' = <<>>
  /\ crLoading' = FALSE
  /\ repoPath' = Absent
  /\ crPc' = "off"
  /\ run' = NoRun
  /\ createCalls' = <<>>
  /\ crGitCalls' = <<>>
  /\ crCreated' = <<>>
  /\ crOutcomes' = <<>>

\* useInput: any key on the error screen removes the error.
DismissError ==
  /\ CreateMounted
  /\ crError # NoError
  /\ crError' = NoError
  /\ UNCHANGED <<appVars, gitVars, config, argvFrom, quickCreateName, fromBranch,
                 existingBranch, crStep, directoryName, sourceBranch, newBranch,
                 currentCommandIndex, branches, crLoading, repoPath, crPc, run,
                 createCalls, crGitCalls, crCreated, crOutcomes, outsideCreate>>

\* The directory prompt submits only what validateDirectoryName accepts.
HandleDirectorySubmit ==
  /\ Shown("directory")
  /\ \E input \in DirectoryInputs :
       /\ validateDirectoryName(input) = None
       /\ directoryName' = Trim(input)
  /\ crStep' = "source-branch"
  /\ UNCHANGED <<appVars, gitVars, config, argvFrom, quickCreateName, fromBranch,
                 existingBranch, crError, sourceBranch, newBranch, currentCommandIndex,
                 branches, crLoading, repoPath, crPc, run, createCalls, crGitCalls,
                 crCreated, crOutcomes, outsideCreate>>

\* The options are the loaded branches.
HandleSourceBranchSelect ==
  /\ Shown("source-branch")
  /\ \E i \in 1..Len(branches) : sourceBranch' = branches[i].name
  /\ newBranch' = <<>>
  /\ crStep' = "new-branch"
  /\ UNCHANGED <<appVars, gitVars, config, argvFrom, quickCreateName, fromBranch,
                 existingBranch, crError, directoryName, currentCommandIndex, branches,
                 crLoading, repoPath, crPc, run, createCalls, crGitCalls, crCreated,
                 crOutcomes, outsideCreate>>

\* The new-branch prompt submits only what validateNewBranchName accepts.
HandleNewBranchSubmit ==
  /\ Shown("new-branch")
  /\ \E input \in NewBranchInputs :
       /\ validateNewBranchName(input, config, branches) = None
       /\ newBranchEntry' = <<input>>
       /\ LET trimmedBranch == Trim(input)
          IN  newBranch' = IF trimmedBranch # <<>>
                           THEN applyBranchPrefix(trimmedBranch, config.branchPrefix)
                           ELSE sourceBranch
  /\ crStep' = "confirm"
  /\ UNCHANGED <<appVars, gitVars, config, argvFrom, quickCreateName, fromBranch,
                 existingBranch, crError, directoryName, sourceBranch,
                 currentCommandIndex, branches, crLoading, repoPath, crPc, run,
                 createCalls, crGitCalls, crCreated, crOutcomes>>
  /\ UNCHANGED <<clVars, lsVars, pfVars, tpVars, cfVars, dlVars, rrVars, cliVars, gtVars>>

\* handleConfirm up to the await of createWorktree.
HandleConfirm ==
  /\ Shown("confirm")
  /\ Len(createCalls) < MaxAttempts
  /\ BeginCreate("confirm", directoryName, sourceBranch, newBranch, GitRootOr(repoPath))
  /\ UNCHANGED <<appVars, gitVars, config, argvFrom, quickCreateName, fromBranch,
                 existingBranch, crError, directoryName, sourceBranch, newBranch,
                 currentCommandIndex, branches, crLoading, repoPath, crCreated,
                 crOutcomes, outsideCreate>>

\* onCancel of any prompt: onBackToMenu.
CreateCancel ==
  /\ \E step \in {"directory", "source-branch", "new-branch", "confirm"} : Shown(step)
  /\ CreateUnmount
  /\ UNCHANGED <<appVars, gitVars, config, outsideCreate>>

\* The sequence moves on to a step, or to success and its timer.
\* executePostCreateCommands announces a command before it starts it:
\* onProgress(command, current, total), current counting from 1.
ProgressCall(cmds, current) ==
  [command |-> cmds[current], current |-> current, total |-> Len(cmds)]

\* A slip: the count is taken for the index.
OnProgress_CountAsIndex(call) == call.current

\* The callback of the panel: currentCommandIndex: current - 1
OnProgress(call) == call.current - 1

\* The sequence r once command number current of cmds has been announced.
Announced(r, cmds, current) ==
  [r EXCEPT !.command = current,
            !.progress = Append(@, ProgressCall(cmds, current))]

EnterStep(step) ==
  /\ crPc' = IF step = "success" THEN "timer" ELSE step
  /\ crStep' = CASE step = "commands" -> "running-commands"
                 [] step = "success" -> "success"
                 [] OTHER -> crStep
  /\ currentCommandIndex' = IF step = "commands"
                            THEN OnProgress(ProgressCall(config.postCreateCmd, 1))
                            ELSE currentCommandIndex
  /\ run' = IF step = "commands" THEN Announced(run, config.postCreateCmd, 1) ELSE run
  /\ crOutcomes' = IF step = "success"
                   THEN Append(crOutcomes, [via |-> run.via, outcome |-> "success"])
                   ELSE crOutcomes

\* The catch block of a trigger or of handleConfirm.
CatchError(step) ==
  /\ crStep' = "directory"
  /\ crError' = StepError(step)
  /\ LET fields == FieldsAfterFailure(directoryName, sourceBranch, newBranch)
     IN  /\ directoryName' = fields[1]
         /\ sourceBranch' = fields[2]
         /\ newBranch' = fields[3]
  /\ crPc' = "idle"
  /\ crOutcomes' = Append(crOutcomes, [via |-> run.via, outcome |-> "failed"])
  /\ LET ops == CompensationOnFailure(run.worktreePath)
     IN  /\ crGitCalls' = crGitCalls \o ops
         /\ repo' = ApplyGitOps(repo, ops)
  /\ UNCHANGED <<appVars, gitBranches, config, argvFrom, quickCreateName, fromBranch,
                 existingBranch, currentCommandIndex, branches, crLoading, repoPath,
                 run, createCalls, crCreated, outsideCreate>>

CreateWorktreeResolves ==
  /\ CreateMounted
  /\ crPc = "createWorktree"
  /\ GitAllowsCreate(repo, gitBranches, run)
  /\ repo' = Append(repo, [path |-> run.worktreePath, branch |-> run.newBranch,
                           isMain |-> FALSE, isClean |-> TRUE])
  /\ gitBranches' = IF HasBranch(gitBranches, run.newBranch) THEN gitBranches
                    ELSE Append(gitBranches, Branch(run.newBranch, FALSE, FALSE))
  /\ crCreated' = Append(crCreated, run.worktreePath)
  /\ EnterStep(AfterCreateWorktree(config))
  /\ UNCHANGED <<appVars, config, argvFrom, quickCreateName, fromBranch, existingBranch,
                 crError, directoryName, sourceBranch, newBranch, branches, crLoading,
                 repoPath, createCalls, crGitCalls, outsideCreate>>

CreateWorktreeRejects ==
  /\ CreateMounted
  /\ crPc = "createWorktree"
  /\ CatchError("createWorktree")

CopyFilesResolves ==
  /\ CreateMounted
  /\ crPc = "copyFiles"
  /\ EnterStep(AfterCopyFiles(config))
  /\ UNCHANGED <<appVars, gitVars, config, argvFrom, quickCreateName, fromBranch,
                 existingBranch, crError, directoryName, sourceBranch, newBranch,
                 branches, crLoading, repoPath, createCalls, crGitCalls, crCreated,
                 outsideCreate>>

CopyFilesRejects ==
  /\ CreateMounted
  /\ crPc = "copyFiles"
  /\ CatchError("copyFiles")

\* executePostCreateCommands: a command exits with 0; onProgress announces
\* the next one, or the promise resolves after the last.
CommandSucceeds ==
  /\ CreateMounted
  /\ crPc = "commands"
  /\ IF run.command < Len(config.postCreateCmd)
     THEN /\ run' = Announced(run, config.postCreateCmd, run.command + 1)
          /\ currentCommandIndex' =
               OnProgress(ProgressCall(config.postCreateCmd, run.command + 1))
          /\ UNCHANGED <<crPc, crStep, crOutcomes>>
     ELSE EnterStep(AfterCommands(config))
  /\ UNCHANGED <<appVars, gitVars, config, argvFrom, quickCreateName, fromBranch,
                 existingBranch, crError, directoryName, sourceBranch, newBranch,
                 branches, crLoading, repoPath, createCalls, crGitCalls, crCreated,
                 outsideCreate>>

\* A slip: a failing command is passed over and the sequence goes on.
CommandFails_Continues == CommandSucceeds

\* executePostCreateCommands: a command fails and the promise rejects.
CommandFails ==
  /\ CreateMounted
  /\ crPc = "commands"
  /\ CatchError("commands")

OpenTerminalResolves ==
  /\ CreateMounted
  /\ crPc = "openTerminal"
  /\ EnterStep("success")
  /\ UNCHANGED <<appVars, gitVars, config, argvFrom, quickCreateName, fromBranch,
                 existingBranch, crError, directoryName, sourceBranch, newBranch,
                 branches, crLoading, repoPath, createCalls, crGitCalls, crCreated,
                 outsideCreate>>

OpenTerminalRejects ==
  /\ CreateMounted
  /\ crPc = "openTerminal"
  /\ CatchError("openTerminal")

\* The setTimeout callback, 2000 ms after success.
SuccessTimerFires ==
  /\ CreateMounted
  /\ crPc = "timer"
  /\ IF isFromWrapper
     THEN /\ stdout' = Append(stdout,
                [kind |-> "path",
                 path |-> LET gitRootProp == RouterCreateGitRoot(MainRepo)
                          IN  createGetTargetPath(run.worktreePath,
                                IF gitRootProp # Absent THEN gitRootProp
                                ELSE GitRootOr(repoPath),
                                RouterCreateOriginalCwd(ORIGINAL_CWD), existing)])
          /\ hasExited' = TRUE
          /\ UNCHANGED <<isFromWrapper, ORIGINAL_CWD, existing, crVars>>
     ELSE /\ CreateUnmount
          /\ UNCHANGED appVars
  /\ UNCHANGED <<gitVars, config, outsideCreate>>

CreateNext ==
  \/ LoadBranchesReturns
  \/ LoadBranchesThrows
  \/ DismissError
  \/ HandleDirectorySubmit
  \/ HandleSourceBranchSelect
  \/ HandleNewBranchSubmit
  \/ HandleConfirm
  \/ CreateCancel
  \/ CreateWorktreeResolves
  \/ CreateWorktreeRejects
  \/ CopyFilesResolves
  \/ CopyFilesRejects
  \/ CommandSucceeds
  \/ CommandFails
  \/ OpenTerminalResolves
  \/ OpenTerminalRejects
  \/ SuccessTimerFires

\* The program started as branchlet create.
SpecCreate == CreateInit /\ [][CreateNext]_vars

\* The create panel with any props.
SpecCreatePanel == CreatePanelInit /\ [][CreateNext]_vars

PathsOfFailed(failed) == [i \in 1..Len(failed) |-> failed[i].path]

PathsOfCalls(calls) == [i \in 1..Len(calls) |-> calls[i].path]

\* C1: when executeBatchDelete has completed, every selected path is in
\* exactly one of result.success and result.failed, no other path is in
\* either, and both lists are in the selection's iteration order; the
\* paths processed are the selection as it was when the user confirmed.
C1_BatchOutcomePartition ==
  /\ navigationMode = "batch-deleting" => pathsToDelete = selectedForDeletion
  /\ navigationMode = "batch-delete-result" =>
       /\ batchDeleteResult # <<>>
       /\ LET success == batchDeleteResult[1].success
              failed == PathsOfFailed(batchDeleteResult[1].failed)
          IN  /\ ElementsOf(success) \cup ElementsOf(failed) = ElementsOf(pathsToDelete)
              /\ ElementsOf(success) \cap ElementsOf(failed) = {}
              /\ Len(success) + Len(failed) = Len(pathsToDelete)
              /\ success = SeqFilterPaths(pathsToDelete, ElementsOf(success))
              /\ failed = SeqFilterPaths(pathsToDelete, ElementsOf(failed))

\* Three paths selected in an order other than the list's, the deletion of
\* the second fails: two successes and one failure.
C1_Witness ==
  /\ navigationMode = "batch-delete-result"
  /\ pathsToDelete = <<WorktreePath(2), WorktreePath(3), WorktreePath(1)>>
  /\ batchDeleteResult[1].success = <<WorktreePath(2), WorktreePath(1)>>
  /\ PathsOfFailed(batchDeleteResult[1].failed) = <<WorktreePath(3)>>

C2_CallsFollowSelection ==
  /\ navigationMode = "batch-delete-result" =>
       PathsOfCalls(deleteCalls) = pathsToDelete
  /\ navigationMode = "batch-deleting" =>
       /\ batchPc = "deleteWorktree"
       /\ batchIndex \in 1..Len(pathsToDelete)
       /\ PathsOfCalls(deleteCalls) = SubSeq(pathsToDelete, 1, batchIndex)

\* C2: a batch delete calls deleteWorktree exactly once for every selected
\* path, in order, whatever calls before it were rejected, and a batch that
\* has started reaches the batch-delete-result state.
C2_BatchNeverAborts ==
  /\ []C2_CallsFollowSelection
  /\ (navigationMode = "batch-deleting") ~> (navigationMode = "batch-delete-result")

\* The first two deletions were rejected and the third path was still
\* passed to deleteWorktree.
C2_Witness ==
  /\ navigationMode = "batch-delete-result"
  /\ Len(pathsToDelete) = 3
  /\ Len(batchDeleteResult[1].failed) = 2
  /\ batchDeleteResult[1].success = <<pathsToDelete[3]>>
  /\ PathsOfCalls(deleteCalls) = pathsToDelete


\* The quick-create name with the configured prefix applied.
QuickBranchName == applyBranchPrefix(quickCreateName, config.branchPrefix)

\* A step of a create sequence has just thrown.
StepFailed ==
  /\ Len(crOutcomes') = Len(crOutcomes) + 1
  /\ crOutcomes'[Len(crOutcomes')].outcome = "failed"

C4_NoRollback ==
  /\ \A i \in 1..Len(crGitCalls) : crGitCalls[i].op = "createWorktree"
  /\ Len(crGitCalls) = Len(createCalls)
  /\ \A i \in 1..Len(crCreated) : crCreated[i] \in PathsOf(repo)

\* createWorktree succeeded and a later step failed.
C4_Witness ==
  /\ crCreated # <<>>
  /\ crError \in {StepError("copyFiles"), StepError("commands"), StepError("openTerminal")}
  /\ crOutcomes # <<>>
  /\ crOutcomes[Len(crOutcomes)].outcome = "failed"
  /\ run.worktreePath \in PathsOf(repo)

\* C5: in every entry point, a step that fails sets the error of that
\* step, returns to step 'directory', keeps directoryName, sourceBranch and
\* newBranch, and ends the attempt: 'success' is entered only by a sequence
\* whose steps all resolved, and an attempt has one outcome.
C5_FailureReturnsToDirectory ==
  /\ [](/\ Len(crOutcomes) <= Len(createCalls)
        /\ \A i \in 1..Len(crOutcomes) : crOutcomes[i].via = createCalls[i].via
        /\ crStep = "success" =>
             /\ crOutcomes # <<>>
             /\ crOutcomes[Len(crOutcomes)].outcome = "success"
             /\ Len(crOutcomes) = Len(createCalls))
  /\ [][StepFailed =>
          /\ crPc \in RunSteps
          /\ crStep' = "directory"
          /\ crError' = StepError(crPc)
          /\ crPc' = "idle"
          /\ <<directoryName', sourceBranch', newBranch'>> =
               <<directoryName, sourceBranch, newBranch>>
          /\ <<directoryName', sourceBranch', newBranch'>> =
               <<run.name, run.sourceBranch, run.newBranch>>]_vars

\* The existing-branch attempt failed, and then the interactive one.
C5_Witness ==
  /\ Len(crOutcomes) = 2
  /\ crOutcomes[1] = [via |-> "existing", outcome |-> "failed"]
  /\ crOutcomes[2] = [via |-> "confirm", outcome |-> "failed"]
  /\ crStep = "directory"
  /\ crError # NoError
  /\ directoryName # <<>>
  /\ newBranch # <<>>

\* The source branch the documented precedence chooses for
\* branchlet create <name> [--from <branch>].
DocumentedSource ==
  IF argvFrom # Absent THEN argvFrom
  ELSE IF config.defaultSourceBranch # <<>> THEN config.defaultSourceBranch
  ELSE IF \E i \in 1..Len(branches) : branches[i].isCurrent THEN CurrentBranch(branches).name
  ELSE Absent

\* C6: the source branch of a quick create is the --from branch if one was
\* given, else the configured defaultSourceBranch, else the current branch,
\* and it is a loaded branch: there is no call when the chosen one is not.
C6_SourceBranchPrecedence ==
  \A i \in 1..Len(createCalls) :
    createCalls[i].via = "quick" =>
      /\ createCalls[i].sourceBranch = DocumentedSource
      /\ HasBranch(branches, DocumentedSource)


\* ------------------------------------- the close getTargetPath on its own

\* Longest path, in segments, the process may have been started in.
MaxPathLen == 3

\* Directory names: one begins with two dots without being "..".
PathSegments == {"r", "wt", "sub", "..x"}

RECURSIVE PathsUpTo(_)
PathsUpTo(n) ==
  IF n = 0 THEN {<<>>}
  ELSE LET shorter == PathsUpTo(n - 1)
       IN  shorter \cup {Append(p, seg) : p \in {q \in shorter : Len(q) = n - 1},
                                          seg \in PathSegments}

\* What may exist below the destination root.
BelowChoices == SUBSET {<<"sub">>, <<"..x">>, <<"wt", "sub">>}

TargetInit ==
  /\ ThreeOff
  /\ EntryOff
  /\ CliOff
  /\ RouterOff
  /\ DeleteOff
  /\ ConfigServiceOff
  /\ isFromWrapper = FALSE
  /\ ORIGINAL_CWD = Absent
  /\ stdout = <<>>
  /\ hasExited = FALSE
  /\ repo = <<>>
  /\ gitBranches = <<>>
  /\ config = DEFAULT_CONFIG
  /\ CreateOff
  /\ CloseOff
  /\ ListOff
  /\ PrefixOff
  /\ tpPhase = "input"
  /\ tpMainRepoPath \in {MainRepo, <<"m">>}
  /\ tpWorktreePath \in {Worktree, <<"r">>}
  /\ tpOriginalCwd \in PathsUpTo(MaxPathLen)
  /\ \E below \in BelowChoices : existing = {tpMainRepoPath \o rel : rel \in below}
  /\ tpResult = Absent

GetTargetPath ==
  /\ tpPhase = "input"
  /\ tpResult' = closeGetTargetPath(tpMainRepoPath, tpWorktreePath, tpOriginalCwd, existing)
  /\ tpPhase' = "returned"
  /\ UNCHANGED <<tpMainRepoPath, tpWorktreePath, tpOriginalCwd>>
  /\ UNCHANGED outsideTarget

TargetNext == GetTargetPath

SpecTarget == TargetInit /\ [][TargetNext]_vars

\* The relative path leaves the directory it is relative to.
Escapes(rel) == rel # <<>> /\ Head(rel) = ".."

\* C11: getTargetPath returns D when C is undefined, when the path of C
\* relative to W is empty, or when it escapes W; otherwise join(D, relative)
\* if that path exists and D if it does not; so the result is D or an
\* existing path below D.
C11_CloseTargetPath ==
  tpPhase = "returned" =>
    LET relativePath == PathRelative(tpWorktreePath, tpOriginalCwd)
        joined == PathJoin(tpMainRepoPath, relativePath)
    IN  /\ (tpOriginalCwd = Absent \/ relativePath = <<>> \/ Escapes(relativePath))
             => tpResult = tpMainRepoPath
        /\ ~(tpOriginalCwd = Absent \/ relativePath = <<>> \/ Escapes(relativePath))
             => tpResult = IF joined \in existing THEN joined ELSE tpMainRepoPath
        /\ \/ tpResult = tpMainRepoPath
           \/ tpResult \in existing /\ StartsWith(tpResult, tpMainRepoPath)


\* ------------------------------------------------- one run of the program

\* branchlet started in one of the modes create, list and close.
AppInit == CreateInit \/ ListInit \/ CloseInit

AppNext == CreateNext \/ ListNext \/ CloseNext

\* From the start of the process to its exit or its return to the menu.
SpecApp == AppInit /\ [][AppNext]_vars

\* `${path}\n`
IsPathLine(line) == DOMAIN line = {"kind", "path"} /\ line.kind = "path"

\* JSON.stringify({ navigateTo, deleteWorktree }) and a newline
IsCloseLine(line) ==
  DOMAIN line = {"kind", "navigateTo", "deleteWorktree"} /\ line.kind = "json"

\* C12: with --from-wrapper at most one line is written to stdout: a bare
\* path by a successful create or by the list's selection, or the object
\* {navigateTo, deleteWorktree} by a confirmed close; the process exits in
\* the step that writes, so that no second line follows, and a flow that
\* failed or was cancelled has written nothing.
C12_OneLineThenExit ==
  /\ [](isFromWrapper =>
          /\ Len(stdout) <= 1
          /\ stdout # <<>> =>
               /\ hasExited
               /\ \/ IsPathLine(stdout[1]) /\ crStep = "success"
                  \/ IsPathLine(stdout[1]) /\ navigationMode = "list" /\ listError = None
                  \/ IsCloseLine(stdout[1]) /\ clStep = "closing"
          /\ (\/ crError # NoError
              \/ clStep = "error"
              \/ listError # None
              \/ (crStep = "off" /\ clStep = "off" /\ navigationMode = "off"))
               => stdout = <<>>)
  /\ [][(isFromWrapper /\ stdout' # stdout) =>
          /\ stdout = <<>>
          /\ Len(stdout') = 1
          /\ ~hasExited
          /\ hasExited']_vars


\* ------------------------------------------------ the configuration service

GLOBAL_CONFIG_FILE == "~/.branchlet/settings.json"

\* join(projectPath || process.cwd(), LOCAL_CONFIG_FILE_NAME)
LocalConfigFile == "./.branchlet.json"

ConfigPaths == {GLOBAL_CONFIG_FILE, LocalConfigFile}

\* { ...a, ...b }
Spread(a, b) ==
  [f \in (DOMAIN a) \cup (DOMAIN b) |-> IF f \in DOMAIN b THEN b[f] ELSE a[f]]

\* The fields a configuration file or an update sets, and the values it gives.
FieldChoices ==
  [branchPrefix |-> <<"x", "/">>, postCreateCmd |-> <<"c1">>]

\* A JSON object setting some of these fields.
PartialConfigs ==
  {[f \in fields |-> FieldChoices[f]] : fields \in SUBSET DOMAIN FieldChoices}

\* A file written by hand sets one field.
FilePartials == {c \in PartialConfigs : Cardinality(DOMAIN c) = 1}

\* The values of the type WorktreeConfig.
FullConfigs == {Spread(DEFAULT_CONFIG, partial) : partial \in PartialConfigs}

\* The configurations a caller saves.
SavedConfigs == {DEFAULT_CONFIG, Spread(DEFAULT_CONFIG, FieldChoices)}

\* A JavaScript value handed to the schema: its fields, and whether each
\* known field has the type the schema asks for.
WellTyped(fields) == [wellTyped |-> TRUE, fields |-> fields]

IllTyped(fields) == [wellTyped |-> FALSE, fields |-> fields]

\* No file, a text that is not JSON, or the text of a JSON value.
NoFile == [kind |-> "absent"]

MalformedFile == [kind |-> "malformed"]

\* JSON.stringify(value, null, 2)
JsonStringify(value) == [kind |-> "json", value |-> value]

\* What a configuration file can hold.
FileContents ==
  {NoFile, MalformedFile, JsonStringify(IllTyped(DEFAULT_CONFIG))}
    \cup {JsonStringify(WellTyped(c)) : c \in FilePartials \cup SavedConfigs}

\* readFile and JSON.parse: the value, or an exception.
ReadAndParse(file) ==
  IF file.kind = "json"
  THEN [threw |-> FALSE, value |-> file.value]
  ELSE [threw |-> TRUE, value |-> <<>>]

\* validateConfig: a value of the right shape is valid, and every field it
\* leaves out takes its default.
validateConfig(value) ==
  IF value.wellTyped
  THEN [success |-> TRUE, data |-> Spread(DEFAULT_CONFIG, value.fields)]
  ELSE [success |-> FALSE, data |-> <<>>]

\* WorktreeConfigSchema.parse(DEFAULT_CONFIG)
ParsedDefaults == validateConfig(WellTyped(DEFAULT_CONFIG)).data

\* What the file system does to a mkdir followed by a writeFile.
IoOutcomes == {"ok", "mkdir fails", "writeFile fails"}

\* A call on the service as cfLast records it.
Call(op, arg, path, calls, outcome, returned) ==
  [op |-> op, arg |-> arg, path |-> path, calls |-> calls,
   outcome |-> outcome, result |-> returned, after |-> cfLast.op]

ConfigServiceWorld ==
  /\ ThreeOff
  /\ EntryOff
  /\ CliOff
  /\ RouterOff
  /\ DeleteOff
  /\ isFromWrapper = FALSE
  /\ ORIGINAL_CWD = Absent
  /\ existing = {}
  /\ stdout = <<>>
  /\ hasExited = FALSE
  /\ repo = <<>>
  /\ gitBranches = <<>>
  /\ config = DEFAULT_CONFIG
  /\ CreateOff
  /\ CloseOff
  /\ ListOff
  /\ PrefixOff
  /\ TargetOff

\* new ConfigService(), with any files on the disk.
ConfigServiceInit ==
  /\ ConfigServiceWorld
  /\ cfPhase = "ready"
  /\ cfConfig = DEFAULT_CONFIG
  /\ cfConfigPath = None
  /\ cfFiles \in [ConfigPaths -> FileContents]
  /\ cfLast = [op |-> "new", arg |-> <<>>, path |-> None, calls |-> <<>>,
               outcome |-> "ok", result |-> <<>>, after |-> "new"]

\* A slip: the defaults are written without the test for the file.
EnsureGlobal_Always(files, io) ==
  IF io = "mkdir fails"
  THEN [calls |-> <<"mkdir">>, threw |-> TRUE, files |-> files]
  ELSE IF io = "writeFile fails"
  THEN [calls |-> <<"mkdir", "writeFile">>, threw |-> TRUE, files |-> files]
  ELSE [calls |-> <<"mkdir", "writeFile">>, threw |-> FALSE,
        files |-> [files EXCEPT ![GLOBAL_CONFIG_FILE] =
                     JsonStringify(WellTyped(ParsedDefaults))]]

\* The file-system calls of ensureGlobalConfig and the files it leaves.
EnsureGlobal(files, io) ==
  IF files[GLOBAL_CONFIG_FILE].kind # "absent"
  THEN [calls |-> <<"access">>, threw |-> FALSE, files |-> files]
  ELSE IF io = "mkdir fails"
  THEN [calls |-> <<"access", "mkdir">>, threw |-> TRUE, files |-> files]
  ELSE IF io = "writeFile fails"
  THEN [calls |-> <<"access", "mkdir", "writeFile">>, threw |-> TRUE, files |-> files]
  ELSE [calls |-> <<"access", "mkdir", "writeFile">>, threw |-> FALSE,
        files |-> [files EXCEPT ![GLOBAL_CONFIG_FILE] =
                     JsonStringify(WellTyped(ParsedDefaults))]]

\* Step 1 of loadConfig: the global file as the base.
AfterGlobalLayer(current, file) ==
  LET parsed == ReadAndParse(file)
      globalValidation == validateConfig(parsed.value)
  IN  IF ~parsed.threw /\ globalValidation.success
      THEN globalValidation.data
      ELSE current

\* Step 2 of loadConfig: the local file over the base.
AfterLocalLayer(current, currentPath, file) ==
  LET parsed == ReadAndParse(file)
      localValidation == validateConfig(parsed.value)
  IN  IF parsed.threw
      THEN [config |-> current, configPath |-> GLOBAL_CONFIG_FILE]
      ELSE IF localValidation.success
      THEN [config |-> Spread(current, localValidation.data),
            configPath |-> LocalConfigFile]
      ELSE [config |-> current, configPath |-> currentPath]


ConfigServiceFrame ==
  UNCHANGED <<cfPhase, outsideConfigService>>

\* loadConfig(projectPath)
LoadConfig ==
  /\ cfPhase = "ready"
  /\ \E io \in IoOutcomes :
       LET ensured == EnsureGlobal(cfFiles, io)
           base == AfterGlobalLayer(cfConfig, ensured.files[GLOBAL_CONFIG_FILE])
           layered == AfterLocalLayer(base, cfConfigPath, ensured.files[LocalConfigFile])
       IN  /\ cfFiles' = ensured.files
           /\ IF ensured.threw
              THEN /\ cfLast' = Call("loadConfig", <<>>, None, ensured.calls, "Error", <<>>)
                   /\ UNCHANGED <<cfConfig, cfConfigPath>>
              ELSE /\ cfConfig' = layered.config
                   /\ cfConfigPath' = layered.configPath
                   /\ cfLast' = Call("loadConfig", <<>>, None, ensured.calls, "ok",
                                     layered.config)
  /\ ConfigServiceFrame

\* A slip: the file receives the configuration held in memory, not the
\* argument.
SaveWrites_WritesCurrent(value, configPath, io) ==
  IF io = "mkdir fails"
  THEN [calls |-> <<"mkdir">>, threw |-> TRUE, files |-> cfFiles,
        config |-> cfConfig, configPath |-> cfConfigPath]
  ELSE IF io = "writeFile fails"
  THEN [calls |-> <<"mkdir", "writeFile">>, threw |-> TRUE, files |-> cfFiles,
        config |-> cfConfig, configPath |-> cfConfigPath]
  ELSE [calls |-> <<"mkdir", "writeFile">>, threw |-> FALSE,
        files |-> [cfFiles EXCEPT ![configPath] = JsonStringify(WellTyped(cfConfig))],
        config |-> value.fields, configPath |-> configPath]

\* A slip: the assignments come before the writes.
SaveWrites_AssignsFirst(value, configPath, io) ==
  IF io = "mkdir fails"
  THEN [calls |-> <<"mkdir">>, threw |-> TRUE, files |-> cfFiles,
        config |-> value.fields, configPath |-> configPath]
  ELSE IF io = "writeFile fails"
  THEN [calls |-> <<"mkdir", "writeFile">>, threw |-> TRUE, files |-> cfFiles,
        config |-> value.fields, configPath |-> configPath]
  ELSE [calls |-> <<"mkdir", "writeFile">>, threw |-> FALSE,
        files |-> [cfFiles EXCEPT ![configPath] = JsonStringify(value)],
        config |-> value.fields, configPath |-> configPath]

\* What saveConfig does after its two checks: mkdir, writeFile, and then the
\* assignments.
SaveWrites(value, configPath, io) ==
  IF io = "mkdir fails"
  THEN [calls |-> <<"mkdir">>, threw |-> TRUE, files |-> cfFiles,
        config |-> cfConfig, configPath |-> cfConfigPath]
  ELSE IF io = "writeFile fails"
  THEN [calls |-> <<"mkdir", "writeFile">>, threw |-> TRUE, files |-> cfFiles,
        config |-> cfConfig, configPath |-> cfConfigPath]
  ELSE [calls |-> <<"mkdir", "writeFile">>, threw |-> FALSE,
        files |-> [cfFiles EXCEPT ![configPath] = JsonStringify(value)],
        config |-> value.fields, configPath |-> configPath]

\* saveConfig(config, path)
SaveConfig ==
  /\ cfPhase = "ready"
  /\ \E value \in {WellTyped(c) : c \in SavedConfigs} \cup {IllTyped(DEFAULT_CONFIG)},
        path \in ConfigPaths \cup {None},
        io \in IoOutcomes :
       LET configPath == IF path # None THEN path ELSE cfConfigPath
           validation == validateConfig(value)
       IN  IF configPath = None
           THEN /\ cfLast' = Call("saveConfig", value, path, <<>>, "ConfigError", <<>>)
                /\ UNCHANGED <<cfConfig, cfConfigPath, cfFiles>>
           ELSE IF ~validation.success
           THEN /\ cfLast' = Call("saveConfig", value, path, <<"validateConfig">>,
                                  "ConfigError", <<>>)
                /\ UNCHANGED <<cfConfig, cfConfigPath, cfFiles>>
           ELSE LET written == SaveWrites(value, configPath, io)
                IN  /\ cfFiles' = written.files
                    /\ cfConfig' = written.config
                    /\ cfConfigPath' = written.configPath
                    /\ cfLast' = Call("saveConfig", value, path,
                                      <<"validateConfig">> \o written.calls,
                                      IF written.threw THEN "ConfigError" ELSE "ok", <<>>)
  /\ ConfigServiceFrame

\* updateConfig(updates)
UpdateConfig ==
  /\ cfPhase = "ready"
  /\ \E updates \in PartialConfigs :
       /\ cfConfig' = Spread(cfConfig, updates)
       /\ cfLast' = Call("updateConfig", updates, None, <<>>, "ok", Spread(cfConfig, updates))
  /\ UNCHANGED <<cfConfigPath, cfFiles>>
  /\ ConfigServiceFrame

\* ensureGlobalConfig()
EnsureGlobalConfig ==
  /\ cfPhase = "ready"
  /\ \E io \in IoOutcomes :
       LET ensured == EnsureGlobal(cfFiles, io)
       IN  /\ cfFiles' = ensured.files
           /\ cfLast' = Call("ensureGlobalConfig", <<>>, None, ensured.calls,
                             IF ensured.threw THEN "Error" ELSE "ok", <<>>)
  /\ UNCHANGED <<cfConfig, cfConfigPath>>
  /\ ConfigServiceFrame

ConfigServiceNext ==
  \/ LoadConfig
  \/ SaveConfig
  \/ UpdateConfig
  \/ EnsureGlobalConfig

SpecConfigService == ConfigServiceInit /\ [][ConfigServiceNext]_vars


\* ------------------------------------- claims on the configuration service

\* The file holds a JSON value the schema accepts.
ValidFile(file) == file.kind = "json" /\ file.value.wellTyped

\* The file is there and is malformed JSON or fails the schema.
BadFile(file) == file.kind # "absent" /\ ~ValidFile(file)

\* The configuration a valid file stands for.
ConfigOf(file) == validateConfig(file.value).data

\* The file sets branchPrefix and nothing else.
OnlyBranchPrefix(file) ==
  ValidFile(file) /\ DOMAIN file.value.fields = {"branchPrefix"}

\* The last call was a loadConfig that returned.
Loaded == cfPhase = "ready" /\ cfLast.op = "loadConfig" /\ cfLast.outcome = "ok"

\* C13: with a valid global configuration G and a local file that sets only
\* branchPrefix, loadConfig returns G in every other field and the local
\* value in branchPrefix.
C13_LocalPrefixOnly ==
  (/\ Loaded
   /\ ValidFile(cfFiles[GLOBAL_CONFIG_FILE])
   /\ OnlyBranchPrefix(cfFiles[LocalConfigFile]))
    => cfLast.result =
         [ConfigOf(cfFiles[GLOBAL_CONFIG_FILE]) EXCEPT
            !.branchPrefix = cfFiles[LocalConfigFile].value.fields.branchPrefix]

\* A saveConfig(C, path) with a path succeeded and this step is a loadConfig
\* that returns.
SavedThenLoaded ==
  /\ cfLast.op = "saveConfig"
  /\ cfLast.outcome = "ok"
  /\ cfLast.path \in ConfigPaths
  /\ LoadConfig
  /\ cfLast'.outcome = "ok"

\* C14 as stated: after a successful saveConfig(C, path) to the global or to
\* the local file, the following loadConfig returns C field for field.
C14_RoundTrip ==
  [][SavedThenLoaded => cfLast'.result = cfLast.arg.fields]_vars

\* C14, amended: the same when the path is the local file, or when it is the
\* global file and there is no well-formed local file.
C14_RoundTripTopLayer ==
  [][(/\ SavedThenLoaded
      /\ \/ cfLast.path = LocalConfigFile
         \/ ~ValidFile(cfFiles[LocalConfigFile]))
       => cfLast'.result = cfLast.arg.fields]_vars

\* A configuration other than the defaults was saved and has been read back.
C14_Witness ==
  /\ Loaded
  /\ cfLast.after = "saveConfig"
  /\ cfLast.result = Spread(DEFAULT_CONFIG, FieldChoices)
  /\ cfConfigPath = LocalConfigFile
  /\ cfFiles[LocalConfigFile] = JsonStringify(WellTyped(cfLast.result))
  /\ ValidFile(cfFiles[GLOBAL_CONFIG_FILE])
  /\ ConfigOf(cfFiles[GLOBAL_CONFIG_FILE]) # cfLast.result

\* C15: ensureGlobalConfig writes the defaults only when there is no global
\* file: with a global file of any content, and so on a second call, it
\* leaves the files as they are.
C15_EnsureOnlyWhenAbsent ==
  [][EnsureGlobalConfig =>
       /\ cfFiles[GLOBAL_CONFIG_FILE].kind # "absent" =>
            /\ cfFiles' = cfFiles
            /\ \A i \in DOMAIN cfLast'.calls : cfLast'.calls[i] = "access"
       /\ (cfFiles[GLOBAL_CONFIG_FILE].kind = "absent" /\ cfLast'.outcome = "ok") =>
            cfFiles' = [cfFiles EXCEPT ![GLOBAL_CONFIG_FILE] =
                          JsonStringify(WellTyped(DEFAULT_CONFIG))]
       /\ (cfLast.op = "ensureGlobalConfig" /\ cfLast.outcome = "ok") =>
            cfFiles' = cfFiles]_vars

\* ensureGlobalConfig was called twice and a file that is not JSON is still
\* what it was.
C15_Witness ==
  /\ cfPhase = "ready"
  /\ cfLast.op = "ensureGlobalConfig"
  /\ cfLast.after = "ensureGlobalConfig"
  /\ cfLast.calls = <<"access">>
  /\ cfFiles[GLOBAL_CONFIG_FILE] = MalformedFile

\* C16: loadConfig does not fail over a malformed or schema-invalid file, and
\* it returns what it would return without that file: the defaults (under the
\* local layer, if there is one) for a bad global file, the global
\* configuration for a bad local file; whatever was called before.
C16_BadFileIsAbsent ==
  (cfPhase = "ready" /\ cfLast.op = "loadConfig") =>
    LET global == cfFiles[GLOBAL_CONFIG_FILE]
        local == cfFiles[LocalConfigFile]
    IN  /\ cfLast.outcome # "ok" => global.kind = "absent"
        /\ (cfLast.outcome = "ok" /\ BadFile(global) /\ ~ValidFile(local)) =>
             cfLast.result = DEFAULT_CONFIG
        /\ (cfLast.outcome = "ok" /\ BadFile(global) /\ ValidFile(local)) =>
             cfLast.result = Spread(DEFAULT_CONFIG, ConfigOf(local))
        /\ (cfLast.outcome = "ok" /\ ValidFile(global) /\ BadFile(local)) =>
             cfLast.result = ConfigOf(global)

\* C17: saveConfig validates before it touches the file system and makes the
\* directory before it writes; without a path or with an invalid
\* configuration it raises ConfigError and calls neither mkdir nor writeFile;
\* when it fails, this.config and this.configPath are what they were.
C17_SaveValidatesFirst ==
  [][SaveConfig =>
       LET calls == cfLast'.calls
           value == cfLast'.arg
           noPath == cfLast'.path = None /\ cfConfigPath = None
       IN  /\ \A i \in DOMAIN calls :
                /\ calls[i] \in {"mkdir", "writeFile"} =>
                     \E j \in 1..(i - 1) : calls[j] = "validateConfig"
                /\ calls[i] = "writeFile" => \E j \in 1..(i - 1) : calls[j] = "mkdir"
           /\ (noPath \/ ~value.wellTyped) =>
                /\ cfLast'.outcome = "ConfigError"
                /\ \A i \in DOMAIN calls : calls[i] \notin {"mkdir", "writeFile"}
           /\ cfLast'.outcome \in {"ok", "ConfigError"}
           /\ cfLast'.outcome # "ok" =>
                /\ cfConfig' = cfConfig
                /\ cfConfigPath' = cfConfigPath
                /\ cfFiles' = cfFiles]_vars

\* A valid configuration could not be written: writeFile failed after mkdir,
\* and the service holds another configuration than the one it was given.
C17_Witness ==
  /\ cfPhase = "ready"
  /\ cfLast.op = "saveConfig"
  /\ cfLast.outcome = "ConfigError"
  /\ cfLast.calls = <<"validateConfig", "mkdir", "writeFile">>
  /\ cfConfig # cfLast.arg.fields


\* ------------------------------------------ deleting a worktree and its branch

\* The branch name of a worktree on a detached HEAD.
Detached == <<"detached">>

\* A slip: the test for a detached HEAD is left out.
WillDeleteBranch_Detached(cfg, branchName) ==
  cfg.deleteBranchWithWorktree /\ branchName # Absent

\* config.deleteBranchWithWorktree && branchName && branchName !== "detached"
WillDeleteBranch(cfg, branchName) ==
  cfg.deleteBranchWithWorktree /\ branchName # Absent /\ branchName # Detached

\* The worktrees besides the main one: a clean one on its own branch, a dirty
\* one on a detached HEAD, a clean one on the branch of the main worktree.
LinkedWorktrees ==
  {[path |-> WorktreePath(1), branch |-> <<"f">>, isMain |-> FALSE, isClean |-> TRUE],
   [path |-> WorktreePath(2), branch |-> Detached, isMain |-> FALSE, isClean |-> FALSE],
   [path |-> WorktreePath(3), branch |-> <<"m">>, isMain |-> FALSE, isClean |-> TRUE],
   [path |-> WorktreePath(4), branch |-> <<"g">>, isMain |-> FALSE, isClean |-> FALSE]}

RECURSIVE SeqOfSet(_)
SeqOfSet(set) ==
  IF set = {} THEN <<>>
  ELSE LET x == CHOOSE y \in set : TRUE IN <<x>> \o SeqOfSet(set \ {x})

\* The branch is checked out in one of the worktrees.
CheckedOut(wts, branchName) == \E i \in 1..Len(wts) : wts[i].branch = branchName

\* The worktree at the path.
WorktreeAt(wts, path) == CHOOSE wt \in {wts[i] : i \in 1..Len(wts)} : wt.path = path

RECURSIVE WithoutBranch(_, _)
\* git branch -d, when it succeeds.
WithoutBranch(list, branchName) ==
  IF list = <<>> THEN <<>>
  ELSE IF Head(list).name = branchName THEN WithoutBranch(Tail(list), branchName)
  ELSE <<Head(list)>> \o WithoutBranch(Tail(list), branchName)

DeleteInit ==
  /\ ThreeOff
  /\ EntryOff
  /\ CliOff
  /\ RouterOff
  /\ isFromWrapper = FALSE
  /\ ORIGINAL_CWD = Absent
  /\ existing = {}
  /\ stdout = <<>>
  /\ hasExited = FALSE
  /\ CreateOff
  /\ CloseOff
  /\ ListOff
  /\ PrefixOff
  /\ TargetOff
  /\ ConfigServiceOff
  /\ \E flag \in BOOLEAN : config = [DEFAULT_CONFIG EXCEPT !.deleteBranchWithWorktree = flag]
  /\ \E linked \in SUBSET LinkedWorktrees : repo = <<MainWorktree>> \o SeqOfSet(linked)
  /\ gitBranches = <<Branch(<<"m">>, TRUE, TRUE), Branch(<<"f">>, FALSE, FALSE),
                     Branch(<<"g">>, FALSE, FALSE)>>
  /\ dlPc = "idle"
  /\ dlCall = <<>>
  /\ dlLog = <<>>

DeleteFrame == UNCHANGED outsideDelete


\* deleteWorktree(path, force) is called and git worktree remove is started.
DeleteWorktreeCalled ==
  /\ dlPc = "idle"
  /\ \E i \in 1..Len(repo), force \in BOOLEAN :
       /\ ~repo[i].isMain
       /\ dlCall' = [path |-> repo[i].path, force |-> force, branch |-> repo[i].branch]
  /\ dlPc' = "removeWorktree"
  /\ dlLog' = <<>>
  /\ UNCHANGED <<repo, gitBranches>>
  /\ DeleteFrame

\* git worktree remove succeeds: the worktree was clean, or force was given.
\* The branch is deleted next when the configuration asks for it, the branch
\* is a branch, and no other worktree has it checked out.
RemoveWorktreeSucceeds ==
  /\ dlPc = "removeWorktree"
  /\ dlCall.force \/ WorktreeAt(repo, dlCall.path).isClean
  /\ repo' = WithoutPath(repo, dlCall.path)
  /\ dlLog' = Append(dlLog, "worktree removed")
  /\ dlPc' = IF /\ WillDeleteBranch(config, dlCall.branch)
                /\ ~CheckedOut(WithoutPath(repo, dlCall.path), dlCall.branch)
             THEN "deleteBranch" ELSE "idle"
  /\ UNCHANGED <<gitBranches, dlCall>>
  /\ DeleteFrame

\* git worktree remove fails: deleteWorktree rejects.
RemoveWorktreeFails ==
  /\ dlPc = "removeWorktree"
  /\ dlLog' = Append(dlLog, "worktree removal failed")
  /\ dlPc' = "idle"
  /\ UNCHANGED <<repo, gitBranches, dlCall>>
  /\ DeleteFrame

\* git branch -d succeeds.
DeleteBranchSucceeds ==
  /\ dlPc = "deleteBranch"
  /\ gitBranches' = WithoutBranch(gitBranches, dlCall.branch)
  /\ dlLog' = Append(dlLog, "branch deleted")
  /\ dlPc' = "idle"
  /\ UNCHANGED <<repo, dlCall>>
  /\ DeleteFrame

\* git branch -d fails: the caller gets a warning, the worktree stays removed.
DeleteBranchFails ==
  /\ dlPc = "deleteBranch"
  /\ dlLog' = Append(dlLog, "branch deletion failed")
  /\ dlPc' = "idle"
  /\ UNCHANGED <<repo, gitBranches, dlCall>>
  /\ DeleteFrame

DeleteNext ==
  \/ DeleteWorktreeCalled
  \/ RemoveWorktreeSucceeds
  \/ RemoveWorktreeFails
  \/ DeleteBranchSucceeds
  \/ DeleteBranchFails

SpecDelete == DeleteInit /\ [][DeleteNext]_vars

C19_CommandsStopAtFailure ==
  /\ [](crPc = "commands" =>
          /\ run.command \in 1..Len(config.postCreateCmd)
          /\ currentCommandIndex = run.command - 1
          /\ crStep = "running-commands")
  /\ [][/\ (crPc # "commands" /\ crPc' = "commands") => run'.command = 1
        /\ (crPc = "commands" /\ run'.command # run.command) =>
             /\ run'.command = run.command + 1
             /\ crPc' = "commands"
        /\ (crPc = "commands" /\ crPc' \in {"openTerminal", "timer"}) =>
             run.command = Len(config.postCreateCmd)
        /\ CommandFails =>
             /\ crPc' = "idle"
             /\ crStep' = "directory"
             /\ crError' = StepError("commands")
             /\ run'.command = run.command
             /\ crOutcomes' = Append(crOutcomes, [via |-> run.via, outcome |-> "failed"])]_vars

\* The first of two commands failed: the second was not started and the
\* panel shows the error.
C19_Witness ==
  /\ crPc = "idle"
  /\ crStep = "directory"
  /\ crError = StepError("commands")
  /\ Len(config.postCreateCmd) = 2
  /\ run.command = 1
  /\ crOutcomes # <<>>
  /\ crOutcomes[Len(crOutcomes)].outcome = "failed"


\* ------------------------------ the create panel when AppRouter renders again

\* The sequence without its i-th element.
RemoveAt(seq, i) == SubSeq(seq, 1, i - 1) \o SubSeq(seq, i + 1, Len(seq))

\* A sequence is between the call of createWorktree and its success or failure.
Running(pc) == pc \in RunSteps

\* The create sequences that have started and not completed.
InFlight ==
  (IF Running(crPc) THEN 1 ELSE 0)
    + Cardinality({i \in DOMAIN rrPending : Running(rrPending[i].pc)})

\* AppRouter renders again (its state borderColor, or its parent): the panel
\* receives a new onPathSelect, a dependency of the quick-create and of the
\* existing-branch effect, and the effect whose checks pass runs again. The
\* sequence an earlier run started goes on beside the new one.
RouterRenders ==
  /\ CreateMounted
  /\ rrRenders < MaxRenders
  /\ Len(branches) # 0
  /\ ~crLoading
  /\ quickCreateName # Absent \/ existingBranch # Absent
  /\ rrRenders' = rrRenders + 1
  /\ rrPending' = IF Running(crPc) \/ crPc = "timer"
                  THEN Append(rrPending, [pc |-> crPc, run |-> run])
                  ELSE rrPending
  /\ IF quickCreateName # Absent
     THEN RunPlan("quick", QuickCreatePlan(quickCreateName, fromBranch, config, branches),
                  GitRootOr(repoPath))
     ELSE RunPlan("existing", ExistingBranchPlan(existingBranch, branches),
                  GitRootOr(repoPath))
  /\ UNCHANGED <<appVars, gitVars, config, argvFrom, quickCreateName, fromBranch,
                 existingBranch, currentCommandIndex, branches, crLoading, repoPath,
                 crCreated, crOutcomes>>
  /\ UNCHANGED <<clVars, lsVars, pfVars, tpVars, cfVars, dlVars, cliVars, entryVars, gtVars>>

\* The step an earlier sequence takes when the call it awaits resolves.
StepAfter(p) ==
  CASE p.pc = "createWorktree" -> AfterCreateWorktree(config)
    [] p.pc = "copyFiles" -> AfterCopyFiles(config)
    [] p.pc = "commands" -> IF p.run.command < Len(config.postCreateCmd)
                            THEN "commands" ELSE AfterCommands(config)
    [] p.pc = "openTerminal" -> "success"

\* The call an earlier sequence awaits resolves and the sequence moves on.
EarlierStepResolves ==
  /\ CreateMounted
  /\ \E i \in DOMAIN rrPending :
       LET p == rrPending[i]
           next == StepAfter(p)
       IN  /\ Running(p.pc)
           /\ IF p.pc = "createWorktree"
              THEN /\ GitAllowsCreate(repo, gitBranches, p.run)
                   /\ repo' = Append(repo, [path |-> p.run.worktreePath,
                                            branch |-> p.run.newBranch,
                                            isMain |-> FALSE, isClean |-> TRUE])
                   /\ gitBranches' = IF HasBranch(gitBranches, p.run.newBranch)
                                     THEN gitBranches
                                     ELSE Append(gitBranches,
                                                 Branch(p.run.newBranch, FALSE, FALSE))
                   /\ crCreated' = Append(crCreated, p.run.worktreePath)
              ELSE UNCHANGED <<repo, gitBranches, crCreated>>
           /\ rrPending' =
                [rrPending EXCEPT ![i] =
                   [pc |-> IF next = "success" THEN "timer" ELSE next,
                    run |-> IF next = "commands"
                            THEN Announced(p.run, config.postCreateCmd,
                                   IF p.pc = "commands" THEN p.run.command + 1 ELSE 1)
                            ELSE p.run]]
           /\ crStep' = CASE next = "commands" -> "running-commands"
                          [] next = "success" -> "success"
                          [] OTHER -> crStep
           /\ currentCommandIndex' =
                IF next = "commands"
                THEN OnProgress(ProgressCall(config.postCreateCmd,
                       IF p.pc = "commands" THEN p.run.command + 1 ELSE 1))
                ELSE currentCommandIndex
           /\ crOutcomes' = IF next = "success"
                            THEN Append(crOutcomes, [via |-> p.run.via, outcome |-> "success"])
                            ELSE crOutcomes
  /\ rrRenders' = rrRenders
  /\ UNCHANGED <<appVars, config, argvFrom, quickCreateName, fromBranch, existingBranch,
                 crError, directoryName, sourceBranch, newBranch, branches, crLoading,
                 repoPath, crPc, run, createCalls, crGitCalls>>
  /\ UNCHANGED <<clVars, lsVars, pfVars, tpVars, cfVars, dlVars, cliVars, entryVars, gtVars>>

\* The call an earlier sequence awaits rejects: its catch block.
EarlierStepRejects ==
  /\ CreateMounted
  /\ \E i \in DOMAIN rrPending :
       LET p == rrPending[i]
           fields == FieldsAfterFailure(directoryName, sourceBranch, newBranch)
           ops == CompensationOnFailure(p.run.worktreePath)
       IN  /\ Running(p.pc)
           /\ rrPending' = RemoveAt(rrPending, i)
           /\ crStep' = "directory"
           /\ crError' = StepError(p.pc)
           /\ directoryName' = fields[1]
           /\ sourceBranch' = fields[2]
           /\ newBranch' = fields[3]
           /\ crOutcomes' = Append(crOutcomes, [via |-> p.run.via, outcome |-> "failed"])
           /\ crGitCalls' = crGitCalls \o ops
           /\ repo' = ApplyGitOps(repo, ops)
  /\ rrRenders' = rrRenders
  /\ UNCHANGED <<appVars, gitBranches, config, argvFrom, quickCreateName, fromBranch,
                 existingBranch, currentCommandIndex, branches, crLoading, repoPath,
                 crPc, run, createCalls, crCreated>>
  /\ UNCHANGED <<clVars, lsVars, pfVars, tpVars, cfVars, dlVars, cliVars, entryVars, gtVars>>

\* The setTimeout callback of an earlier sequence.
EarlierTimerFires ==
  /\ CreateMounted
  /\ \E i \in DOMAIN rrPending :
       LET p == rrPending[i]
       IN  /\ p.pc = "timer"
           /\ IF isFromWrapper
              THEN /\ stdout' = Append(stdout,
                         [kind |-> "path",
                          path |-> LET gitRootProp == RouterCreateGitRoot(MainRepo)
                                   IN  createGetTargetPath(p.run.worktreePath,
                                         IF gitRootProp # Absent THEN gitRootProp
                                         ELSE GitRootOr(repoPath),
                                         RouterCreateOriginalCwd(ORIGINAL_CWD), existing)])
                   /\ hasExited' = TRUE
                   /\ rrPending' = RemoveAt(rrPending, i)
                   /\ rrRenders' = rrRenders
                   /\ UNCHANGED <<isFromWrapper, ORIGINAL_CWD, existing, crVars>>
              ELSE /\ CreateUnmount
                   /\ rrPending' = <<>>
                   /\ rrRenders' = 0
                   /\ UNCHANGED appVars
  /\ UNCHANGED <<gitVars, config>>
  /\ UNCHANGED <<clVars, lsVars, pfVars, tpVars, cfVars, dlVars, cliVars, entryVars, gtVars>>

RouterNext ==
  \/ CreateNext
  \/ RouterRenders
  \/ EarlierStepResolves
  \/ EarlierStepRejects
  \/ EarlierTimerFires

\* branchlet create under an AppRouter that may render again.
SpecCreateRouter == CreateInit /\ [][RouterNext]_vars

\* The createWorktree calls of the quick-create effect.
QuickCalls == {i \in DOMAIN createCalls : createCalls[i].via = "quick"}

\* C20: at most one create sequence is in flight for a mounted create panel:
\* no run of the quick-create or existing-branch effect and no key starts a
\* createWorktree while an earlier sequence has not completed, and the
\* quick-create effect calls createWorktree at most once.
C20_OneSequenceInFlight ==
  /\ [](InFlight <= 1 /\ Cardinality(QuickCalls) <= 1)
  /\ [][Len(createCalls') > Len(createCalls) => InFlight = 0]_vars

\* ---------------------------------------------------------------------
\* the batch delete, one call at a time

\* The deleteWorktree calls of the batch that have resolved or rejected.
SettledDeletes == Len(result.success) + Len(result.failed)

\* The deleteWorktree calls of the batch that have not settled yet.
DeletesInFlight == Len(deleteCalls) - SettledDeletes

\* C21: during a batch delete at most one deleteWorktree call is in flight:
\* the call for the next path starts in the step in which the call for the
\* previous path resolves or rejects and not before, a call is in flight
\* exactly while the progress screen is shown, and a batch is started only
\* when no batch is running, so no key starts a second one.
C21_OneDeleteInFlight ==
  /\ [](/\ DeletesInFlight \in {0, 1}
        /\ DeletesInFlight = 1 <=> batchPc = "deleteWorktree"
        /\ batchPc = "deleteWorktree" <=> navigationMode = "batch-deleting")
  /\ [][/\ ExecuteBatchDelete => batchPc = "idle" /\ DeletesInFlight = 0
        /\ (navigationMode = "batch-deleting" /\ ~(DeleteWorktreeResolves \/ DeleteWorktreeRejects))
             => UNCHANGED <<deleteCalls, result, pathsToDelete, batchIndex>>
        /\ (Len(deleteCalls') > Len(deleteCalls) /\ deleteCalls # <<>>)
             => /\ batchPc = "deleteWorktree"
                /\ deleteCalls' = Append(deleteCalls, deleteCalls'[Len(deleteCalls')])
                /\ SettledDeletes' = Len(deleteCalls)
                /\ pathsToDelete' = pathsToDelete]_vars

\* The second call of a batch is in flight after the first one rejected.
C21_Witness ==
  /\ batchPc = "deleteWorktree"
  /\ Len(deleteCalls) = 2
  /\ Len(result.failed) = 1
  /\ DeletesInFlight = 1

\* ---------------------------------------------------------------------
\* the command line: parseArguments, main, and the prefix panel

\* The longest command line taken up.
MaxArgs == 3

\* A command-line argument: a flag, a word that names a mode, or any other
\* word. The text of a mode name is kept as one piece.
Flag(name) == [kind |-> "flag", name |-> name, text |-> <<>>]
Command(name) == [kind |-> "command", name |-> name, text |-> <<name>>]
Value(text) == [kind |-> "value", name |-> "", text |-> text]

\* minimist's options in parseArguments: which flags are boolean, which take
\* a string, and the aliases; every other flag is unknown to it.
BooleanFlags == {"--from-wrapper", "--clear"}
StringFlags == {"--from", "--mode", "-m"}
FlagKey(name) ==
  CASE name = "--from-wrapper" -> "from-wrapper"
    [] name = "--clear" -> "clear"
    [] name = "--from" -> "from"
    [] name \in {"--mode", "-m"} -> "mode"
    [] name = "--existing" -> "existing"
    [] name = "-e" -> "e"

NoArgs == [positional |-> <<>>, bools |-> {}, values |-> <<>>]

\* minimist(process.argv.slice(2), options): a boolean flag is set and takes
\* no argument; a string flag and an unknown flag take the next argument
\* unless that is a flag, a string flag without one is "" and an unknown
\* flag without one is true; everything else is positional.
RECURSIVE Minimist(_, _)
Minimist(args, acc) ==
  IF args = <<>> THEN acc
  ELSE LET t == Head(args)
           rest == Tail(args)
           takesNext == rest # <<>> /\ Head(rest).kind # "flag"
       IN  IF t.kind # "flag"
           THEN Minimist(rest, [acc EXCEPT !.positional = Append(@, t)])
           ELSE IF t.name \in BooleanFlags
           THEN Minimist(rest, [acc EXCEPT !.bools = @ \cup {FlagKey(t.name)}])
           ELSE IF takesNext
           THEN Minimist(Tail(rest),
                  [acc EXCEPT !.values = Append(@, [key |-> FlagKey(t.name),
                                                    arg |-> <<Head(rest)>>])])
           ELSE Minimist(rest,
                  [acc EXCEPT !.values = Append(@, [key |-> FlagKey(t.name),
                                                    arg |-> <<>>])])

\* argv[key] of a flag that takes a value: <<>> when the flag was not given,
\* else <<its argument>>, the argument being Value(<<>>) when none followed.
ArgOf(parsed, key) ==
  IF \E i \in 1..Len(parsed.values) : parsed.values[i].key = key
  THEN LET i == CHOOSE j \in 1..Len(parsed.values) : parsed.values[j].key = key
       IN  IF parsed.values[i].arg = <<>> THEN <<Value(<<>>)>> ELSE parsed.values[i].arg
  ELSE <<>>

\* function parseArguments(), without --help and --version, which end the
\* run before anything is rendered. An optional field is <<>> for undefined
\* and <<text>> otherwise. The result has no field for an existing branch.
parseArguments(args) ==
  LET parsed == Minimist(args, NoArgs)
      from == ArgOf(parsed, "from")
      modeArg == ArgOf(parsed, "mode")
      \* if (argv.mode && validModes.includes(argv.mode))
      flagMode == IF modeArg # <<>> /\ modeArg[1].kind = "command"
                  THEN modeArg[1].name ELSE "menu"
      pos == parsed.positional
      \* if (validModes.includes(command)) mode = command
      mode == IF pos # <<>> /\ pos[1].kind = "command" THEN pos[1].name ELSE flagMode
  IN  [mode |-> mode,
       help |-> FALSE,
       isFromWrapper |-> "from-wrapper" \in parsed.bools,
       quickCreateName |-> IF mode = "create" /\ Len(pos) > 1 THEN <<pos[2].text>> ELSE <<>>,
       prefixArg |-> IF mode = "prefix" /\ Len(pos) > 1 THEN <<pos[2].text>> ELSE <<>>,
       clearPrefix |-> mode = "prefix" /\ "clear" \in parsed.bools,
       \* argv.from ? String(argv.from) : undefined
       fromBranch |-> IF from # <<>> /\ from[1].text # <<>> THEN <<from[1].text>> ELSE <<>>]

\* main: the props of <App>. No existingBranch is passed.
MainProps(p) ==
  [initialMode |-> p.mode,
   isFromWrapper |-> p.isFromWrapper,
   quickCreateName |-> p.quickCreateName,
   fromBranch |-> p.fromBranch,
   existingBranch |-> <<>>,
   prefixArg |-> p.prefixArg,
   clearPrefix |-> p.clearPrefix]

\* A slip: the slash is appended without looking at the end.
normalizePrefix_AlwaysAppends(prefix) ==
  LET trimmed == Trim(prefix)
  IN  IF trimmed = <<>> THEN <<>> ELSE Append(trimmed, "/")

\* function normalizePrefix(prefix)
normalizePrefix(prefix) ==
  LET trimmed == Trim(prefix)
  IN  IF trimmed = <<>> THEN <<>>
      ELSE IF EndsWith(trimmed, <<"/">>) THEN trimmed ELSE Append(trimmed, "/")

\* The prefixes given on the command line: any text, blanks included.
PrefixAlphabet == {"j", "/", " "}

RECURSIVE PrefixTexts(_)
PrefixTexts(n) ==
  IF n = 0 THEN {<<>>}
  ELSE LET shorter == PrefixTexts(n - 1)
       IN  shorter \cup {Append(s, c) : s \in {t \in shorter : Len(t) = n - 1},
                                        c \in PrefixAlphabet}

\* validatePrefix of the input prompt: blank, or free of whitespace and not
\* starting with "-".
validatePrefix(value) == Trim(value) = <<>> \/ ~Contains(value, " ")

\* What the user types into the input prompt.
PromptInputs == {<<>>, <<" ">>, <<"j">>, <<"j", "/">>, <<"j", " ">>}

CliCommands == {Command("create"), Command("list"), Command("prefix")}
CliFlags == {Flag("-e"), Flag("--existing"), Flag("--from"), Flag("--clear"),
             Flag("--from-wrapper"), Flag("-m")}
CliWords == {Value(<<"a">>), Value(<<"t", "/", "a">>)}
CliTokens == CliCommands \cup CliFlags \cup CliWords

RECURSIVE TokenSeqs(_)
TokenSeqs(n) ==
  IF n = 0 THEN {<<>>}
  ELSE LET shorter == TokenSeqs(n - 1)
       IN  shorter \cup {Append(s, t) : s \in {u \in shorter : Len(u) = n - 1},
                                        t \in CliTokens}

\* No flag is given twice (minimist would collect the values in an array).
NoRepeatedFlag(args) ==
  \A i, j \in 1..Len(args) :
    (i # j /\ args[i].kind = "flag" /\ args[j].kind = "flag")
      => FlagKey(args[i].name) # FlagKey(args[j].name)

\* The command lines taken up: short ones of any shape, and the prefix
\* command with any text as its argument, with and without --clear on
\* either side.
ArgvChoices ==
  {args \in TokenSeqs(MaxArgs) : NoRepeatedFlag(args)}
    \cup {<<Command("prefix"), Value(p)>> : p \in PrefixTexts(MaxStrLen)}
    \cup {<<Command("prefix"), Value(p), Flag("--clear")>> : p \in PrefixTexts(MaxStrLen)}
    \cup {<<Command("prefix"), Flag("--clear"), Value(p)>> : p \in PrefixTexts(MaxStrLen)}

CliInit ==
  /\ ThreeOff
  /\ EntryOff
  /\ RouterOff
  /\ DeleteOff
  /\ ConfigServiceOff
  /\ TargetOff
  /\ PrefixOff
  /\ CreateOff
  /\ CloseOff
  /\ ListOff
  /\ AppOff
  /\ repo = <<>>
  /\ gitBranches = <<>>
  /\ config \in {DEFAULT_CONFIG, [DEFAULT_CONFIG EXCEPT !.branchPrefix = <<"j", "/">>]}
  /\ argv \in ArgvChoices
  /\ parsedArgs = <<>>
  /\ appProps = <<>>
  /\ ppStep = "off"
  /\ ppError = None
  /\ ppPc = "off"
  /\ savePrefixCalls = <<>>

CliFrame == UNCHANGED <<isFromWrapper, ORIGINAL_CWD, existing, stdout, outsideCli>>

\* main: const { ... } = parseArguments()
ParseArguments ==
  /\ argv \in ArgvChoices
  /\ parsedArgs = <<>>
  /\ ppPc = "off"
  /\ parsedArgs' = <<parseArguments(argv)>>
  /\ UNCHANGED <<argv, appProps, ppStep, ppError, ppPc, savePrefixCalls, config, hasExited>>
  /\ CliFrame

\* main: render(<App ... />); in mode prefix AppRouter mounts the prefix
\* panel with prefixArg and clearPrefix.
RenderApp ==
  /\ parsedArgs # <<>>
  /\ appProps = <<>>
  /\ appProps' = <<MainProps(parsedArgs[1])>>
  /\ IF parsedArgs[1].mode = "prefix"
     THEN ppStep' = "show" /\ ppPc' = "effect"
     ELSE UNCHANGED <<ppStep, ppPc>>
  /\ UNCHANGED <<argv, parsedArgs, ppError, savePrefixCalls, config, hasExited>>
  /\ CliFrame

PrefixMounted == ppStep # "off" /\ ~hasExited

\* handleSavePrefix(prefix) up to its await of saveConfig; raw is <<>>, or
\* <<the text normalizePrefix was given>>.
HandleSavePrefix(raw, prefix) ==
  /\ Len(savePrefixCalls) < MaxAttempts
  /\ ppStep' = "saving"
  /\ savePrefixCalls' = Append(savePrefixCalls,
                          [raw |-> raw, prefix |-> prefix, status |-> "pending",
                           clearPrefix |-> appProps[1].clearPrefix,
                           prefixArg |-> appProps[1].prefixArg,
                           from |-> ppPc])

\* The effect of the prefix panel, which runs once after it is mounted.
PrefixEffect ==
  /\ PrefixMounted
  /\ ppPc = "effect"
  /\ ppPc' = "idle"
  /\ LET clearPrefix == appProps[1].clearPrefix
         prefixArg == appProps[1].prefixArg
     IN  IF clearPrefix
         THEN HandleSavePrefix(<<>>, <<>>)
         ELSE IF prefixArg # <<>>
         THEN HandleSavePrefix(prefixArg, normalizePrefix(prefixArg[1]))
         ELSE /\ ppStep' = (IF config.branchPrefix # <<>> THEN "show" ELSE "input")
              /\ UNCHANGED savePrefixCalls
  /\ UNCHANGED <<argv, parsedArgs, appProps, ppError, config, hasExited>>
  /\ CliFrame

PendingSaves == {i \in 1..Len(savePrefixCalls) : savePrefixCalls[i].status = "pending"}

\* An awaited saveConfig resolves: the service holds the saved configuration.
SavePrefixResolves ==
  /\ PrefixMounted
  /\ \E i \in PendingSaves :
       /\ savePrefixCalls' = [savePrefixCalls EXCEPT ![i].status = "resolved"]
       /\ config' = [config EXCEPT !.branchPrefix = savePrefixCalls[i].prefix]
  /\ ppStep' = "done"
  /\ UNCHANGED <<argv, parsedArgs, appProps, ppError, ppPc, hasExited>>
  /\ CliFrame

\* An awaited saveConfig rejects.
SavePrefixRejects ==
  /\ PrefixMounted
  /\ \E i \in PendingSaves :
       savePrefixCalls' = [savePrefixCalls EXCEPT ![i].status = "rejected"]
  /\ ppError' = "save failed"
  /\ ppStep' = "show"
  /\ UNCHANGED <<argv, parsedArgs, appProps, ppPc, config, hasExited>>
  /\ CliFrame

\* onComplete, which AppRouter binds to onExit.
PrefixExit ==
  /\ hasExited' = TRUE
  /\ UNCHANGED <<argv, parsedArgs, appProps, ppStep, ppError, ppPc, savePrefixCalls, config>>
  /\ CliFrame

\* useInput, step "show": Escape.
PrefixKeyEscape ==
  /\ PrefixMounted
  /\ ppPc = "idle"
  /\ ppStep = "show"
  /\ PrefixExit

\* useInput, step "show": Return or c clears the prefix.
PrefixKeyClear ==
  /\ PrefixMounted
  /\ ppPc = "idle"
  /\ ppStep = "show"
  /\ HandleSavePrefix(<<>>, <<>>)
  /\ UNCHANGED <<argv, parsedArgs, appProps, ppError, ppPc, config, hasExited>>
  /\ CliFrame

\* useInput, step "show": s opens the input prompt.
PrefixKeySet ==
  /\ PrefixMounted
  /\ ppPc = "idle"
  /\ ppStep = "show"
  /\ ppStep' = "input"
  /\ UNCHANGED <<argv, parsedArgs, appProps, ppError, ppPc, savePrefixCalls, config, hasExited>>
  /\ CliFrame

\* The input prompt is on screen.
PrefixInputShown == PrefixMounted /\ ppPc = "idle" /\ ppStep = "input" /\ ppError = None

\* handlePrefixSubmit(value), for a value the prompt's validation accepts.
HandlePrefixSubmit ==
  /\ PrefixInputShown
  /\ \E value \in {v \in PromptInputs : validatePrefix(v)} :
       HandleSavePrefix(<<value>>, normalizePrefix(value))
  /\ UNCHANGED <<argv, parsedArgs, appProps, ppError, ppPc, config, hasExited>>
  /\ CliFrame

\* onCancel of the input prompt
PrefixInputCancel ==
  /\ PrefixInputShown
  /\ PrefixExit

\* useInput, step "done": any key.
PrefixDoneKey ==
  /\ PrefixMounted
  /\ ppStep = "done"
  /\ PrefixExit

\* useInput, neither "show" nor "done", with an error: any key.
PrefixErrorKey ==
  /\ PrefixMounted
  /\ ppStep \in {"input", "saving"}
  /\ ppError # None
  /\ ppError' = None
  /\ ppStep' = "show"
  /\ UNCHANGED <<argv, parsedArgs, appProps, ppPc, savePrefixCalls, config, hasExited>>
  /\ CliFrame

CliNext ==
  \/ ParseArguments
  \/ RenderApp
  \/ PrefixEffect
  \/ SavePrefixResolves
  \/ SavePrefixRejects
  \/ PrefixKeyEscape
  \/ PrefixKeyClear
  \/ PrefixKeySet
  \/ HandlePrefixSubmit
  \/ PrefixInputCancel
  \/ PrefixDoneKey
  \/ PrefixErrorKey

SpecCli == CliInit /\ [][CliNext]_vars

\* ---------------------------------------------------------------------
\* claims on the command line

\* The positions of argv at which -e or --existing is followed by a word.
ExistingFlagAt ==
  {i \in 1..(Len(argv) - 1) :
     /\ argv[i] \in {Flag("-e"), Flag("--existing")}
     /\ argv[i + 1].kind # "flag"}

\* C22: invoking the CLI with -e <branch> or --existing <branch> starts the
\* create flow in existing-branch mode for that branch: <App> is rendered in
\* mode create with that branch as existingBranch and without a quick-create
\* name.
C22_ExistingFlag ==
  \A i \in ExistingFlagAt :
    appProps # <<>>
      => /\ appProps[1].initialMode = "create"
         /\ appProps[1].existingBranch = <<argv[i + 1].text>>

\* The prefix command was given a prefix argument and --clear.
ClearAndPrefixGiven ==
  /\ argv # <<>>
  /\ argv[1] = Command("prefix")
  /\ Len(Minimist(argv, NoArgs).positional) > 1
  /\ \E i \in 1..Len(argv) : argv[i] = Flag("--clear")

\* C23: normalizePrefix returns "" for a blank input and otherwise the
\* trimmed input, with "/" appended only when it does not end with "/";
\* applying it to its result changes nothing; and when both --clear and a
\* prefix argument are given the prefix is cleared: the panel saves the
\* empty prefix and never the normalized argument.
C23_NormalizePrefix ==
  /\ \A i \in 1..Len(savePrefixCalls) :
       LET call == savePrefixCalls[i]
       IN  call.raw # <<>> =>
             LET trimmed == Trim(call.raw[1])
             IN  /\ trimmed = <<>> => call.prefix = <<>>
                 /\ (trimmed # <<>> /\ trimmed[Len(trimmed)] = "/") => call.prefix = trimmed
                 /\ (trimmed # <<>> /\ trimmed[Len(trimmed)] # "/")
                      => call.prefix = trimmed \o <<"/">>
                 /\ normalizePrefix(call.prefix) = call.prefix
  /\ (ClearAndPrefixGiven /\ ppPc = "idle")
       => /\ savePrefixCalls # <<>>
          /\ savePrefixCalls[1].from = "effect"
          /\ savePrefixCalls[1].prefix = <<>>
          /\ \A i \in 1..Len(savePrefixCalls) :
               savePrefixCalls[i].raw # appProps[1].prefixArg \/ savePrefixCalls[i].from # "effect"
          /\ (savePrefixCalls[1].status = "resolved" /\ Len(savePrefixCalls) = 1)
               => config.branchPrefix = <<>>

\* `prefix " j" --clear` was run: the effect saved the empty prefix, the save
\* failed, and the user then entered "j", which was saved as "j/".
C23_Witness ==
  /\ ClearAndPrefixGiven
  /\ appProps # <<>>
  /\ appProps[1].prefixArg = <<<<" ", "j">>>>
  /\ Len(savePrefixCalls) = 2
  /\ savePrefixCalls[1].from = "effect"
  /\ savePrefixCalls[1].prefix = <<>>
  /\ savePrefixCalls[1].status = "rejected"
  /\ savePrefixCalls[2].raw = <<<<"j">>>>
  /\ savePrefixCalls[2].prefix = <<"j", "/">>
  /\ savePrefixCalls[2].status = "resolved"
  /\ config.branchPrefix = <<"j", "/">>

\* ---------------------------------------------------------------------
\* the order of the steps of a create sequence

\* The awaited calls of a create sequence in the order of the claim, the
\* last one being the timer that follows "success".
StepOrder == <<"createWorktree", "copyFiles", "commands", "openTerminal", "timer">>

StepIndex(pc) == CHOOSE i \in 1..Len(StepOrder) : StepOrder[i] = pc

\* Whether the configuration asks for a step.
StepConfigured(pc, cfg) ==
  CASE pc = "copyFiles" -> cfg.worktreeCopyPatterns # <<>>
    [] pc = "commands" -> cfg.postCreateCmd # <<>>
    [] pc = "openTerminal" -> cfg.terminalCommand # <<>>
    [] OTHER -> TRUE

\* The first step after pc that the configuration asks for.
NextConfiguredStep(pc, cfg) ==
  LET later == {i \in (StepIndex(pc) + 1)..Len(StepOrder) : StepConfigured(StepOrder[i], cfg)}
  IN  StepOrder[CHOOSE i \in later : \A j \in later : i <= j]

\* C24: in every create sequence the steps start in the order
\* createWorktree, copyFiles, executePostCreateCommands, openTerminal,
\* "success", each only after the one before completed without error; a
\* step is started if and only if it is configured (copy patterns, commands,
\* terminal command non-empty); a failed step starts nothing more; and
\* "running-commands" is entered only after createWorktree succeeded.
C24_StepOrder ==
  /\ [](/\ crStep = "running-commands"
             => /\ run.worktreePath \in ElementsOf(crCreated)
                /\ config.postCreateCmd # <<>>
        /\ crPc \in {"copyFiles", "commands", "openTerminal", "timer"}
             => /\ run.worktreePath \in ElementsOf(crCreated)
                /\ StepConfigured(crPc, config))
  /\ [][/\ (crPc \in RunSteps /\ crPc' # crPc)
             => \/ /\ crPc' = "idle"
                   /\ crError' # NoError
                   /\ crStep' = "directory"
                \/ /\ crPc' = NextConfiguredStep(crPc, config)
                   /\ crError' = NoError
        /\ (crPc' = "createWorktree" /\ crPc # "createWorktree")
             => crPc \in {"idle", "loading"} /\ crStep' = "creating"
        /\ (crPc' \in {"copyFiles", "commands", "openTerminal", "timer"} /\ crPc' # crPc)
             => crPc \in RunSteps
        /\ (crStep' = "running-commands" /\ crStep # "running-commands")
             => crPc \in {"createWorktree", "copyFiles"} /\ crPc' = "commands"
        /\ (crStep' = "success" /\ crStep # "success") => crPc' = "timer"]_vars

\* A sequence with every optional step configured has reached "success".
C24_Witness ==
  /\ crStep = "success"
  /\ crPc = "timer"
  /\ config.worktreeCopyPatterns # <<>>
  /\ config.postCreateCmd # <<>>
  /\ config.terminalCommand # <<>>
  /\ run.command = Len(config.postCreateCmd)
  /\ run.worktreePath \in ElementsOf(crCreated)

\* ---------------------------------------------------------------------
\* a quick create whose checks fail

\* What the quick-create effect resolves from the props and a branch list.
QuickPlanFor(list) == QuickCreatePlan(quickCreateName, fromBranch, config, list)

\* branchlet create <name> with a name, a prefix, a --from branch or a
\* branch list for which one of the checks of the quick-create effect fails.
\* The checks look neither at the optional steps, which are all configured,
\* nor at the shell integration, which is not used.
QuickRejectedInit ==
  /\ CreateInit
  /\ ~isFromWrapper
  /\ config.worktreeCopyPatterns # <<>>
  /\ config.postCreateCmd # <<>>
  /\ config.terminalCommand # <<>>
  /\ quickCreateName # Absent
  /\ gitBranches # <<>>
  /\ ~QuickPlanFor(gitBranches).ok

SpecQuickRejected == QuickRejectedInit /\ [][RouterNext]_vars

\* A run of the quick-create effect in this step: after the branches were
\* loaded, or after AppRouter rendered again.
QuickEffectRuns ==
  /\ LoadBranchesReturns \/ RouterRenders
  /\ quickCreateName # Absent
  /\ Len(branches') # 0

\* C25: in quick-create mode, when the directory-name validation, the
\* validation of the prefixed branch name, the collision check or the
\* resolution of the source branch fails, the effect only sets the error:
\* none of createWorktree, copyFiles, executePostCreateCommands and
\* openTerminal is invoked, the step does not become "creating", nothing
\* in the repository or the panel's fields changes, and the inputs of the
\* checks stay as they are, so that a later run rejects them again.
C25_QuickRejectionHasNoEffect ==
  /\ []((quickCreateName # Absent /\ branches # <<>> /\ ~QuickPlanFor(branches).ok)
          => /\ QuickCalls = {}
             /\ run.via # "quick"
             /\ \A i \in DOMAIN rrPending : rrPending[i].run.via # "quick")
  /\ [][(QuickEffectRuns /\ ~QuickPlanFor(branches').ok)
          => /\ crError' = QuickPlanFor(branches').error
             /\ crPc' = "idle"
             /\ crStep' = crStep
             /\ crStep' # "creating" \/ rrPending' # <<>>
             /\ UNCHANGED <<createCalls, crGitCalls, crCreated, crOutcomes, repo,
                            gitBranches, config, directoryName, sourceBranch, newBranch,
                            quickCreateName, fromBranch, stdout, hasExited>>]_vars

\* The quick-create effect has run twice and has rejected the name both
\* times; nothing was created.
C25_Witness ==
  /\ quickCreateName # Absent
  /\ branches # <<>>
  /\ ~QuickPlanFor(branches).ok
  /\ rrRenders = 1
  /\ crError = QuickPlanFor(branches).error
  /\ createCalls = <<>>
  /\ crGitCalls = <<>>
  /\ crStep = "directory"

\* ---------------------------------------------------------------------
\* the steps of the interactive create flow

\* The panel was mounted without a quick-create name and without an
\* existing branch: every field comes from the prompts.
Interactive == crStep # "off" /\ quickCreateName = Absent /\ existingBranch = Absent

\* The forward transitions of the step.
ForwardSteps ==
  {<<"directory", "source-branch">>, <<"source-branch", "new-branch">>,
   <<"new-branch", "confirm">>, <<"confirm", "creating">>,
   <<"creating", "running-commands">>, <<"creating", "success">>,
   <<"running-commands", "success">>}

\* C26: in the interactive create flow the step advances only directory ->
\* source-branch -> new-branch -> confirm -> creating -> (running-commands)
\* -> success, one step per submission of the user or completion of an
\* awaited call; the only transition backwards is a failure, which returns
\* to directory with the error; and createWorktree is invoked only from the
\* confirm step, when the user confirms.
C26_InteractiveSteps ==
  /\ [](Interactive => \A i \in DOMAIN createCalls : createCalls[i].via = "confirm")
  /\ [][Interactive =>
          /\ crStep' # crStep
               => \/ /\ <<crStep, crStep'>> \in ForwardSteps
                     /\ crError' = NoError
                  \/ /\ crStep \in {"creating", "running-commands"}
                     /\ crStep' = "directory"
                     /\ crError' # NoError
                  \/ crStep' = "off"
          /\ (crStep' # crStep /\ crStep \in {"directory", "source-branch", "new-branch"}
                /\ crStep' # "off")
               => HandleDirectorySubmit \/ HandleSourceBranchSelect \/ HandleNewBranchSubmit
          /\ createCalls' # createCalls /\ crStep' # "off"
               => /\ HandleConfirm
                  /\ crStep = "confirm"
                  /\ crError = NoError
                  /\ createCalls' = Append(createCalls,
                       [via |-> "confirm", name |-> directoryName,
                        sourceBranch |-> sourceBranch, newBranch |-> newBranch,
                        basePath |-> createCalls'[Len(createCalls')].basePath])]_vars

\* An interactive flow failed once, went through the prompts again from the
\* directory step and reached "success".
C26_Witness ==
  /\ Interactive
  /\ crStep = "success"
  /\ Len(createCalls) = 2
  /\ Len(crOutcomes) = 2
  /\ crOutcomes[1].outcome = "failed"
  /\ crOutcomes[2].outcome = "success"

\* ---------------------------------------------------------------------
\* checking out an existing branch

\* C27: an existing-branch checkout never gets the branch prefix. When the
\* entry at the new-branch prompt is empty, handleConfirm invokes
\* createWorktree with newBranch equal to sourceBranch; in existing-branch
\* mode createWorktree is invoked with newBranch and sourceBranch equal to
\* existingBranch, only if that branch is in the loaded branch list, and
\* with the branch name with every "/" replaced by "-" as directory name;
\* and with a quickCreateName the existing-branch effect invokes nothing.
C27_ExistingBranchUnprefixed ==
  /\ [](\A i \in DOMAIN createCalls :
          LET call == createCalls[i]
          IN  /\ call.via = "existing"
                   => /\ quickCreateName = Absent
                      /\ existingBranch # Absent
                      /\ call.newBranch = call.sourceBranch
                      /\ call.sourceBranch = existingBranch
                      /\ HasBranch(branches, existingBranch)
                      /\ call.name = SlashesToDashes(existingBranch)
                      /\ ~Contains(call.name, "/")
              /\ call.via = "quick" => quickCreateName # Absent)
  /\ [][HandleConfirm =>
          LET call == createCalls'[Len(createCalls')]
          IN  /\ newBranchEntry # <<>>
              /\ call.sourceBranch = sourceBranch
              /\ call.newBranch = newBranch
              /\ Trim(newBranchEntry[1]) = <<>> => call.newBranch = call.sourceBranch
              /\ Trim(newBranchEntry[1]) # <<>>
                   => call.newBranch = applyBranchPrefix(Trim(newBranchEntry[1]),
                                                         config.branchPrefix)]_vars

\* With the prefix "t/" configured the user chose the source branch "m",
\* left the new-branch prompt blank and confirmed: createWorktree was called
\* for the branch "m" itself.
C27_Witness ==
  /\ config.branchPrefix = <<"t", "/">>
  /\ newBranchEntry = <<<<" ">>>>
  /\ createCalls # <<>>
  /\ createCalls[Len(createCalls)].via = "confirm"
  /\ createCalls[Len(createCalls)].sourceBranch = <<"m">>
  /\ createCalls[Len(createCalls)].newBranch = <<"m">>
  /\ crPc = "createWorktree"

\* ---------------------------------------------------------------------
\* the steps of the close flow

CloseTransitions ==
  {<<"checking", "confirm">>, <<"checking", "error">>,
   <<"confirm", "closing">>, <<"confirm", "error">>}

\* C28: the step of the close flow changes only along checking -> confirm,
\* checking -> error, confirm -> closing and confirm -> error; "closing" and
\* "error" are terminal, a key in "error" doing nothing but exit; and
\* "closing" is reached only from "confirm", by a confirmation.
C28_CloseSteps ==
  /\ [](/\ clStep \in {"off", "checking", "confirm", "closing", "error"}
        /\ clStep = "closing" => /\ clConfirms >= 1
                                 /\ clCleanResult = "true"
                                 /\ hasExited
        /\ clStep = "error" <=> clError # None)
  /\ [][/\ clStep' # clStep => <<clStep, clStep'>> \in CloseTransitions
        /\ clStep' = "closing" /\ clStep # "closing"
             => clStep = "confirm" /\ clConfirms' = clConfirms + 1
        /\ clStep = "closing" => UNCHANGED <<clVars, stdout, hasExited>>
        /\ clStep = "error" => /\ UNCHANGED <<clVars, stdout>>
                               /\ ~hasExited /\ hasExited']_vars

\* Without shell integration the flow went checking -> confirm -> error and
\* a key ended the program.
C28_Witness ==
  /\ clStep = "error"
  /\ clError = CLOSE_REQUIRES_SHELL_INTEGRATION
  /\ clCleanResult = "true"
  /\ clConfirms = 1
  /\ hasExited
  /\ stdout = <<>>

\* ---------------------------------------------------------------------
\* where a close navigates to

\* C29: on a successful close started through the app router the navigateTo
\* that is emitted is the target-path rule applied to the main repository
\* root, the worktree root and the working directory the process was
\* started in: a user standing in a subdirectory of the worktree that also
\* exists in the main repository is navigated to that subdirectory.
C29_CloseNavigatesToSubdirectory ==
  \A i \in DOMAIN onCloseCompleteCalls :
    onCloseCompleteCalls[i].navigateTo =
      closeGetTargetPath(clMainRepoPath, clCurrentWorktreePath, ORIGINAL_CWD, existing)

\* ---------------------------------------------------------------------
\* the three getTargetPath functions, side by side

\* Roots: beside each other, one inside the other, and apart.
RootChoices == {MainRepo, Worktree, <<"r">>, <<"wt">>}

ThreeInit ==
  /\ EntryOff
  /\ CliOff
  /\ RouterOff
  /\ DeleteOff
  /\ ConfigServiceOff
  /\ TargetOff
  /\ PrefixOff
  /\ CreateOff
  /\ CloseOff
  /\ ListOff
  /\ isFromWrapper = FALSE
  /\ ORIGINAL_CWD = Absent
  /\ stdout = <<>>
  /\ hasExited = FALSE
  /\ repo = <<>>
  /\ gitBranches = <<>>
  /\ config = DEFAULT_CONFIG
  /\ gtSourceRoot \in RootChoices
  /\ gtDestRoot \in RootChoices
  /\ gtOriginalCwd \in PathsUpTo(MaxPathLen) \ {Absent}
  /\ \E below \in BelowChoices : existing = {gtDestRoot \o rel : rel \in below}
  /\ gtClose = <<>>
  /\ gtCreate = <<>>
  /\ gtList = <<>>

\* close panel: getTargetPath(state.mainRepoPath, state.currentWorktreePath, originalCwd)
CloseGetTargetPath ==
  /\ gtSourceRoot # Absent
  /\ gtClose = <<>>
  /\ gtClose' = <<closeGetTargetPath(gtDestRoot, gtSourceRoot, gtOriginalCwd, existing)>>
  /\ UNCHANGED <<gtSourceRoot, gtDestRoot, gtOriginalCwd, gtCreate, gtList>>
  /\ UNCHANGED outsideThree

\* create panel: getTargetPath(worktreePath, gitRoot, originalCwd)
CreateGetTargetPath ==
  /\ gtSourceRoot # Absent
  /\ gtCreate = <<>>
  /\ gtCreate' = <<createGetTargetPath(gtDestRoot, gtSourceRoot, gtOriginalCwd, existing)>>
  /\ UNCHANGED <<gtSourceRoot, gtDestRoot, gtOriginalCwd, gtClose, gtList>>
  /\ UNCHANGED outsideThree

\* list panel: getTargetPath(worktree.path, gitRoot, originalCwd)
ListGetTargetPath ==
  /\ gtSourceRoot # Absent
  /\ gtList = <<>>
  /\ gtList' = <<listGetTargetPath(gtDestRoot, gtSourceRoot, gtOriginalCwd, existing)>>
  /\ UNCHANGED <<gtSourceRoot, gtDestRoot, gtOriginalCwd, gtClose, gtCreate>>
  /\ UNCHANGED outsideThree

ThreeNext ==
  \/ CloseGetTargetPath
  \/ CreateGetTargetPath
  \/ ListGetTargetPath

SpecThree == ThreeInit /\ [][ThreeNext]_vars

\* C30: given the same source root, destination root and original working
\* directory, all three defined, and the same disk, the getTargetPath of the
\* close panel, of the create panel and of the list panel return the same
\* path; they differ in the order of their arguments only.
C30_SameTargetPath ==
  /\ gtClose # <<>> /\ gtCreate # <<>> => gtClose = gtCreate
  /\ gtClose # <<>> /\ gtList # <<>> => gtClose = gtList
  /\ gtCreate # <<>> /\ gtList # <<>> => gtCreate = gtList

\* The user stood in sub of the source root, sub exists below another
\* destination root, and all three answered with it.
C30_Witness ==
  /\ gtSourceRoot # gtDestRoot
  /\ gtOriginalCwd = gtSourceRoot \o <<"sub">>
  /\ gtClose = <<gtDestRoot \o <<"sub">>>>
  /\ gtCreate = gtClose
  /\ gtList = gtClose

\* ---------------------------------------------------------------------
\* the batch delete on a repository that changes under the panel

\* The worktree somebody works in while the panel is open.
EditedWorktrees == {WorktreePath(2)}

\* Outside the program: an edit or a commit in a worktree changes what git
\* would answer for its cleanliness; the list the panel loaded stays as it is.
WorktreeEdited ==
  /\ ListMounted
  /\ \E i \in DOMAIN repo :
       /\ repo[i].path \in EditedWorktrees
       /\ repo' = [repo EXCEPT ![i].isClean = ~@]
  /\ UNCHANGED <<lsVars, isFromWrapper, ORIGINAL_CWD, existing, stdout, hasExited, outsideList>>

ListEditedNext == ListNext \/ WorktreeEdited

SpecListEdited == ListInit /\ [][ListEditedNext]_vars

\* What git would answer now for the worktree at path.
DirtyNow(path) == \E i \in DOMAIN repo : repo[i].path = path /\ ~repo[i].isClean

\* C31: every deleteWorktree call of a batch delete has force = true exactly
\* when the path is in the loaded worktree list and its entry there is not
\* clean, and force = false otherwise; the cleanliness is the one loaded
\* with the list, whatever the worktree looks like by now.
C31_ForceFromLoadedList ==
  \A k \in DOMAIN deleteCalls :
    deleteCalls[k].force =
      (\E i \in DOMAIN worktrees : /\ worktrees[i].path = deleteCalls[k].path
                                   /\ ~worktrees[i].isClean)

\* A worktree loaded as clean and edited since is deleted without force.
C31_Witness ==
  \E k \in DOMAIN deleteCalls : /\ ~deleteCalls[k].force
                                /\ DirtyNow(deleteCalls[k].path)
                                /\ deleteCalls[k].path \in PathsOf(worktrees)

\* ---------------------------------------------------------------------
\* the progress of the post-create commands

\* The counts of the onProgress calls of the sequence under way.
ProgressCounts == [i \in DOMAIN run.progress |-> run.progress[i].current]

\* C32: while the post-create commands run, onProgress has been called once
\* for each command started so far, in the order of the list and before the
\* command runs; the index on display is that of the command about to run,
\* lies in 0..total-1 and never decreases.
C32_ProgressFollowsCommands ==
  /\ [](crPc = "commands" =>
          /\ crStep = "running-commands"
          /\ ProgressCounts = [i \in 1..run.command |-> i]
          /\ \A i \in DOMAIN run.progress :
               /\ run.progress[i].command = config.postCreateCmd[i]
               /\ run.progress[i].total = Len(config.postCreateCmd)
          /\ currentCommandIndex = run.command - 1
          /\ currentCommandIndex \in 0..(Len(config.postCreateCmd) - 1))
  /\ [][/\ crStep = "running-commands" /\ crStep' = "running-commands"
             => currentCommandIndex' >= currentCommandIndex
        /\ crPc = "commands" /\ crPc' = "commands" /\ run' # run
             => /\ Len(run'.progress) = Len(run.progress) + 1
                /\ currentCommandIndex' = currentCommandIndex + 1]_vars

\* The last of the configured commands is about to run.
C32_Witness ==
  /\ crPc = "commands"
  /\ Len(config.postCreateCmd) >= 2
  /\ run.command = Len(config.postCreateCmd)
  /\ currentCommandIndex = Len(config.postCreateCmd) - 1
  /\ Len(run.progress) = Len(config.postCreateCmd)

\* ---------------------------------------------------------------------
\* a retry after a failure that left the new branch behind

\* A createWorktree of this session, which succeeded, created the branch:
\* one of the worktrees created since the panel was mounted is on it, and
\* it was not among the branches when they were loaded.
CreatedInSession(branch) ==
  /\ ~HasBranch(branches, branch)
  /\ \E k \in DOMAIN repo : /\ repo[k].path \in ElementsOf(crCreated)
                            /\ repo[k].branch = branch

\* C33: createWorktree is never invoked with a newBranch, different from
\* sourceBranch, that an earlier createWorktree of the session created: a
\* retry with the same branch name after a failure behind createWorktree is
\* rejected as a collision before the call.
C33_RetryCollides ==
  [][Len(createCalls') > Len(createCalls) =>
       LET call == createCalls'[Len(createCalls')]
       IN  call.newBranch # call.sourceBranch => ~CreatedInSession(call.newBranch)]_vars

\* ---------------------------------------------------------------------
\* what can be selected for deletion

\* C34: the paths selected for deletion are paths of the loaded list, which
\* holds no main worktree, whatever toggles, reloads and batch deletes came
\* before; so a batch delete never passes the main repository to
\* deleteWorktree.
C34_SelectionWithinList ==
  /\ ElementsOf(selectedForDeletion) \subseteq PathsOf(worktrees)
  /\ \A i \in DOMAIN worktrees : ~worktrees[i].isMain /\ worktrees[i].path # MainWorktree.path
  /\ ElementsOf(pathsToDelete) \subseteq PathsOf(worktrees)
  /\ \A k \in DOMAIN deleteCalls :
       /\ deleteCalls[k].path \in PathsOf(worktrees)
       /\ deleteCalls[k].path # MainWorktree.path

\* A batch delete removed a worktree, the selection was made again on what
\* was left, and the list has been loaded again since.
C34_Witness ==
  /\ navigationMode = "list"
  /\ loadPc = "idle"
  /\ ~loading
  /\ WorktreePath(1) \notin PathsOf(repo)
  /\ worktrees = NonMain(repo)
  /\ selectedForDeletion # <<>>

\* ---------------------------------------------------------------------
\* where the cursor of the list is

\* C35: whenever the loaded list is not empty, selectedIndex is the index of
\* one of its worktrees, after any arrow keys, digits, batch deletes and
\* reloads.
C35_CursorOnAWorktree ==
  Len(worktrees) > 0 => selectedIndex \in 0..(Len(worktrees) - 1)

\* ---------------------------------------------------------------------
\* what the list panel hands to onPathSelect

\* The paths the list panel has passed to onPathSelect.
PathsSelected == {i \in DOMAIN stdout : stdout[i].kind = "path"}

\* C36: the list panel passes a path to onPathSelect only under the shell
\* wrapper, and only from Enter in the list, as the result of the
\* target-path rule for the worktree under the cursor; the "cd" entry of
\* the action menu, which passes the path as it is, never passes one.
C36_PathOnlyFromWrapper ==
  /\ [](/\ PathsSelected # {} => isFromWrapper /\ hasExited
        /\ navigationMode = "action-menu" => ~isFromWrapper /\ PathsSelected = {}
        /\ \A i \in PathsSelected :
             /\ selectedIndex + 1 \in DOMAIN worktrees
             /\ stdout[i].path =
                  listGetTargetPath(worktrees[selectedIndex + 1].path,
                                    RouterListGitRoot(MainRepo),
                                    RouterListOriginalCwd(ORIGINAL_CWD), existing))
  /\ [][stdout' # stdout =>
          /\ isFromWrapper
          /\ navigationMode = "list"
          /\ navigationMode' = "list"
          /\ Len(stdout') = Len(stdout) + 1]_vars

\* Under the wrapper Enter on the second worktree passed its path on.
C36_Witness ==
  /\ isFromWrapper
  /\ hasExited
  /\ navigationMode = "list"
  /\ selectedIndex = 1
  /\ stdout = <<[kind |-> "path", path |-> WorktreePath(2)]>>

\* ---------------------------------------------------------------------
\* what the close flow asks to have deleted

\* The payloads written for the shell wrapper.
ClosePayloads == {i \in DOMAIN stdout : stdout[i].kind = "json"}

\* C37: the deleteWorktree path of the close payload is the worktree path
\* getCurrentWorktreeInfo returned, the one isWorktreeClean was asked about
\* and answered true for, earlier in the same flow; the flow itself changes
\* nothing in the repository, it writes the payload and nothing else.
C37_PayloadNamesTheCheckedWorktree ==
  /\ [](/\ Len(onCloseCompleteCalls) = Cardinality(ClosePayloads)
        /\ \A i \in DOMAIN onCloseCompleteCalls :
             /\ clInfoStatus = "returned"
             /\ onCloseCompleteCalls[i].deleteWorktree = clInfo.worktreePath
             /\ onCloseCompleteCalls[i].deleteWorktree # Absent
             /\ clCleanCalls = <<onCloseCompleteCalls[i].deleteWorktree>>
             /\ clCleanResult = "true"
        /\ \A i \in ClosePayloads :
             /\ stdout[i].deleteWorktree = clInfo.worktreePath
             /\ clCleanCalls = <<stdout[i].deleteWorktree>>
             /\ clCleanResult = "true")
  /\ [][/\ repo' = repo
        /\ gitBranches' = gitBranches
        /\ onCloseCompleteCalls' # onCloseCompleteCalls =>
             /\ clPc = "done"
             /\ clCleanResult = "true"
             /\ Len(stdout') = Len(stdout) + 1]_vars

\* The payload for the worktree on branch a has been written.
C37_Witness ==
  /\ clStep = "closing"
  /\ clInfo.branch = <<"a">>
  /\ clCleanCalls = <<Worktree>>
  /\ stdout = <<[kind |-> "json", navigateTo |-> MainRepo, deleteWorktree |-> Worktree]>>

\* ---------------------------------------------------------------------
\* the path a loaded configuration is saved to

\* C38: after a loadConfig that completed, getConfigPath() is defined: the
\* path of the local file when a well-formed local file was laid over the
\* global one, and the path of the global file in every other case (no
\* local file, malformed JSON, a local file that fails the schema).
C38_ConfigPathAfterLoad ==
  (cfPhase = "ready" /\ cfLast.op = "loadConfig" /\ cfLast.outcome = "ok") =>
    /\ cfConfigPath # None
    /\ cfConfigPath = IF ValidFile(cfFiles[LocalConfigFile])
                      THEN LocalConfigFile
                      ELSE GLOBAL_CONFIG_FILE

\* ---------------------------------------------------------------------------
\* What the prefix panel persists.

PersistedPrefixes ==
  {savePrefixCalls[i].prefix :
     i \in {k \in DOMAIN savePrefixCalls : savePrefixCalls[k].status = "resolved"}}

\* C39: every prefix the prefix panel persists satisfies validatePrefix, from
\* the input prompt or from the command-line prefix argument, and a step that
\* changes the effective configuration changes its branchPrefix field only.
C39_PersistedPrefixIsValid ==
  /\ [](\A prefix \in PersistedPrefixes : validatePrefix(prefix))
  /\ [][config' # config =>
          config' = [config EXCEPT !.branchPrefix = config'.branchPrefix]]_vars

\* ---------------------------------------------------------------------------
\* The prefix panel after a save that failed.

\* A key the prefix panel's useInput acts on.
PrefixKeyPress ==
  \/ PrefixKeyEscape
  \/ PrefixKeyClear
  \/ PrefixKeySet
  \/ PrefixDoneKey
  \/ PrefixErrorKey

\* C40: a save that fails sets the error and leaves the configuration as it
\* was; the key pressed while the error is shown clears it and returns to
\* "show" without another save; no error is shown in step "done".
C40_ErrorThenShow ==
  /\ [][SavePrefixRejects => ppError' # None /\ config' = config]_vars
  /\ [][(ppError # None /\ PrefixKeyPress)
          => /\ ppError' = None
             /\ ppStep' = "show"
             /\ savePrefixCalls' = savePrefixCalls]_vars
  /\ [](ppStep = "done" => ppError = None)

====
